---- MODULE Spec2Model ----
(***************************************************************************)
(* Model of the colour-extraction and token-derivation pipeline of         *)
(* assets/js/app.js (image-to-design-tokens).                              *)
(*                                                                         *)
(* Arithmetic.  The JavaScript works on IEEE doubles; here every real is   *)
(* an integer in millionths (Scale), computed with floor division, and a   *)
(* threshold test is done by cross multiplication wherever the source      *)
(* compares a quotient with a constant.  Products stay below 2^31.         *)
(*                                                                         *)
(* Strings.  A hex string is a record: kind "hex" with the three channel   *)
(* values, whether its letters are upper case and whether it starts with   *)
(* '#'; kind "text" is a non-empty string the regular expression of        *)
(* hexToRgb rejects; kind "null" is null.                                  *)
(***************************************************************************)
EXTENDS Integers, Sequences, FiniteSets, TLC

Scale == 1000000

\* ------------------------------------------------------------------------
\* COLOR UTILITY FUNCTIONS
\* ------------------------------------------------------------------------

Max2(a, b) == IF a >= b THEN a ELSE b
Min2(a, b) == IF a <= b THEN a ELSE b
Abs(x) == IF x < 0 THEN 0 - x ELSE x
Max3(a, b, c) == Max2(a, Max2(b, c))
Min3(a, b, c) == Min2(a, Min2(b, c))

\* (a * b) / Scale for 0 <= a, b <= 4 * Scale, without overflowing 2^31
MulScale(a, b) ==
  LET a1 == a \div 1000  a0 == a % 1000
      b1 == b \div 1000  b0 == b % 1000
  IN  a1 * b1 + (a1 * b0 + a0 * b1) \div 1000 + (a0 * b0) \div Scale

\* a string of the form #rrggbb in lower case, as rgbToHex builds it
HexStr(r, g, b) ==
  [kind |-> "hex", r |-> r, g |-> g, b |-> b, upper |-> FALSE, hash |-> TRUE]
\* the same digits spelled with upper-case letters (differs only if a digit is a letter)
UpperHexStr(r, g, b) ==
  [kind |-> "hex", r |-> r, g |-> g, b |-> b,
   upper |-> \E x \in {r, g, b} : (x \div 16 >= 10 \/ x % 16 >= 10), hash |-> TRUE]
\* the same digits without the leading '#'
BareHexStr(r, g, b) ==
  [kind |-> "hex", r |-> r, g |-> g, b |-> b, upper |-> FALSE, hash |-> FALSE]
\* a non-empty string that is not six hex digits, e.g. "#fff" or "red"
TextStr(n) ==
  [kind |-> "text", r |-> n, g |-> 0, b |-> 0, upper |-> FALSE, hash |-> FALSE]
NullStr ==
  [kind |-> "null", r |-> 0, g |-> 0, b |-> 0, upper |-> FALSE, hash |-> FALSE]

\* JavaScript truthiness of a string-or-null value
Truthy(s) == s.kind # "null"

toLowerCase(s) == [s EXCEPT !.upper = FALSE]

rgbToHex(r, g, b) == HexStr(r, g, b)

NullRgb == [r |-> 0 - 1, g |-> 0 - 1, b |-> 0 - 1]
Rgb(r, g, b) == [r |-> r, g |-> g, b |-> b]

\* /^#?([a-f\d]{2})([a-f\d]{2})([a-f\d]{2})$/i : null unless six hex digits
hexToRgb(hex) ==
  IF hex.kind = "hex" THEN Rgb(hex.r, hex.g, hex.b) ELSE NullRgb

\* c/255 linearised (c <= 0.03928 -> c/12.92, else ((c+0.055)/1.055)^2.4), in millionths
LinearTable ==
  <<
     0, 304, 607, 911, 1214, 1518, 1821, 2125,
     2428, 2732, 3035, 3347, 3677, 4025, 4391, 4777,
     5182, 5605, 6049, 6512, 6995, 7499, 8023, 8568,
     9134, 9721, 10330, 10960, 11612, 12286, 12983, 13702,
     14444, 15209, 15996, 16807, 17642, 18500, 19382, 20289,
     21219, 22174, 23153, 24158, 25187, 26241, 27321, 28426,
     29557, 30713, 31896, 33105, 34340, 35601, 36889, 38204,
     39546, 40915, 42311, 43735, 45186, 46665, 48172, 49707,
     51269, 52861, 54480, 56128, 57805, 59511, 61246, 63010,
     64803, 66626, 68478, 70360, 72272, 74214, 76185, 78187,
     80220, 82283, 84376, 86500, 88656, 90842, 93059, 95307,
     97587, 99899, 102242, 104616, 107023, 109462, 111932, 114435,
     116971, 119538, 122139, 124772, 127438, 130136, 132868, 135633,
     138432, 141263, 144128, 147027, 149960, 152926, 155926, 158961,
     162029, 165132, 168269, 171441, 174647, 177888, 181164, 184475,
     187821, 191202, 194618, 198069, 201556, 205079, 208637, 212231,
     215861, 219526, 223228, 226966, 230740, 234551, 238398, 242281,
     246201, 250158, 254152, 258183, 262251, 266356, 270498, 274677,
     278894, 283149, 287441, 291771, 296138, 300544, 304987, 309469,
     313989, 318547, 323143, 327778, 332452, 337164, 341914, 346704,
     351533, 356400, 361307, 366253, 371238, 376262, 381326, 386429,
     391572, 396755, 401978, 407240, 412543, 417885, 423268, 428690,
     434154, 439657, 445201, 450786, 456411, 462077, 467784, 473531,
     479320, 485150, 491021, 496933, 502886, 508881, 514918, 520996,
     527115, 533276, 539479, 545724, 552011, 558340, 564712, 571125,
     577580, 584078, 590619, 597202, 603827, 610496, 617207, 623960,
     630757, 637597, 644480, 651406, 658375, 665387, 672443, 679542,
     686685, 693872, 701102, 708376, 715694, 723055, 730461, 737910,
     745404, 752942, 760525, 768151, 775822, 783538, 791298, 799103,
     806952, 814847, 822786, 830770, 838799, 846873, 854993, 863157,
     871367, 879622, 887923, 896269, 904661, 913099, 921582, 930111,
     938686, 947307, 955973, 964686, 973445, 982251, 991102, 1000000
  >>

\* (w * x) / 10000 for a weight w in ten-thousandths
Weigh(w, x) == w * (x \div 10000) + (w * (x % 10000)) \div 10000

getLuminance(r, g, b) ==
  LET Weighted(linear) ==
        Weigh(2126, linear[r + 1]) + Weigh(7152, linear[g + 1]) + Weigh(722, linear[b + 1])
  IN  Weighted(LinearTable)

Lum(c) == getLuminance(c.r, c.g, c.b)

\* (lighter + 0.05) / (darker + 0.05) >= num/den for two luminances
RatioGE(l1, l2, num, den) ==
  (Max2(l1, l2) + 50000) * den >= num * (Min2(l1, l2) + 50000)

\* (lighter + 0.05) / (darker + 0.05) in thousandths
Ratio(l1, l2) == ((Max2(l1, l2) + 50000) * 1000) \div (Min2(l1, l2) + 50000)

\* getContrastRatio(c1, c2) >= num/den
ContrastGE(c1, c2, num, den) == RatioGE(Lum(c1), Lum(c2), num, den)
ContrastLT(c1, c2, num, den) == ~ContrastGE(c1, c2, num, den)

\* getContrastRatio(c1, c2) in thousandths
getContrastRatio(c1, c2) == Ratio(Lum(c1), Lum(c2))

getSaturation(r, g, b) ==
  LET S(max, min) ==
        IF max = min THEN 0
        ELSE IF max + min > 255
             THEN ((max - min) * Scale) \div (510 - max - min)
             ELSE ((max - min) * Scale) \div (max + min)
  IN  S(Max3(r, g, b), Min3(r, g, b))

Sat(c) == getSaturation(c.r, c.g, c.b)

\* h in thousandths of a degree, s and l in millionths
rgbToHsl(r, g, b) ==
  LET H(max, d) ==
        IF d = 0 THEN 0
        ELSE IF max = r
             THEN (60000 * (g - b)) \div d + (IF g < b THEN 360000 ELSE 0)
        ELSE IF max = g
             THEN (60000 * (b - r)) \div d + 120000
        ELSE (60000 * (r - g)) \div d + 240000
      HSL(max, min) ==
        [h |-> H(max, max - min), s |-> getSaturation(r, g, b),
         l |-> ((max + min) * Scale) \div 510]
  IN  HSL(Max3(r, g, b), Min3(r, g, b))

Hsl(c) == rgbToHsl(c.r, c.g, c.b)

\* threshold in whole degrees
isSimilarHue(hsl1, hsl2, threshold) ==
  LET d0 == Abs(hsl1.h - hsl2.h)
      diff == IF d0 > 180000 THEN 360000 - d0 ELSE d0
  IN  diff < threshold * 1000

\* 512 * colorDistance(c1, c2)^2 : the redmean sum without the square root
colorDistance(c1, c2) ==
  LET rSum == c1.r + c2.r
      dr == c1.r - c2.r
      dg == c1.g - c2.g
      db == c1.b - c2.b
  IN  (1024 + rSum) * dr * dr + 2048 * dg * dg + (1534 - rSum) * db * db

\* colorDistance(c1, c2) < threshold
DistanceLT(c1, c2, threshold) ==
  colorDistance(c1, c2) < 512 * threshold * threshold

\* 1000000 * ln 2
Ln2 == 693147

\* largest k with 2^k <= n
RECURSIVE Log2Floor(_)
Log2Floor(n) == IF n < 2 THEN 0 ELSE 1 + Log2Floor(n \div 2)

RECURSIVE Pow2(_)
Pow2(k) == IF k = 0 THEN 1 ELSE 2 * Pow2(k - 1)

\* sum of z^j / j for odd j from j up to 13, zj = z^j
RECURSIVE AtanhSeries(_, _, _)
AtanhSeries(zj, z2, j) ==
  IF j > 13 \/ zj = 0 THEN 0
  ELSE zj \div j + AtanhSeries(MulScale(zj, z2), z2, j + 2)

\* Math.log(n) in millionths, for 1 <= n < 4096:
\* ln n = k ln 2 + 2 atanh((n - 2^k) / (n + 2^k))
MathLog(n) ==
  LET Series(z) == 2 * AtanhSeries(z, MulScale(z, z), 1)
      Log(k, p) == k * Ln2 + Series(((n - p) * Scale) \div (n + p))
      From(k) == Log(k, Pow2(k))
  IN  From(Log2Floor(n))

\* ------------------------------------------------------------------------
\* MEDIAN CUT ALGORITHM
\* ------------------------------------------------------------------------

Channels == <<"r", "g", "b">>

SetMin(S) == CHOOSE x \in S : \A y \in S : x <= y
SetMax(S) == CHOOSE x \in S : \A y \in S : x >= y

ChannelRange(pixels, channel) ==
  LET vals == {pixels[i][channel] : i \in 1..Len(pixels)}
  IN  SetMax(vals) - SetMin(vals)

\* first channel (r, g, b) whose range is strictly larger than all before it
findLargestRange(pixels) ==
  LET Largest(rr, rg, rb) ==
        IF rb > Max2(rr, rg) THEN "b"
        ELSE IF rg > rr THEN "g"
        ELSE "r"
  IN  Largest(ChannelRange(pixels, "r"), ChannelRange(pixels, "g"),
              ChannelRange(pixels, "b"))

\* Array.prototype.sort((a, b) => a[channel] - b[channel]) : stable, ascending
RECURSIVE SortValues(_, _, _)
SortValues(pixels, channel, vals) ==
  IF vals = {} THEN <<>>
  ELSE LET v == SetMin(vals)
       IN  SelectSeq(pixels, LAMBDA p : p[channel] = v)
             \o SortValues(pixels, channel, vals \ {v})

SortByChannel(pixels, channel) ==
  SortValues(pixels, channel, {pixels[i][channel] : i \in 1..Len(pixels)})

\* index of the first bucket of maximal length (0-length buckets never win)
MaxBucketIndex(buckets) ==
  CHOOSE i \in 1..Len(buckets) :
    /\ \A j \in 1..Len(buckets) : Len(buckets[j]) <= Len(buckets[i])
    /\ \A j \in 1..(i - 1) : Len(buckets[j]) < Len(buckets[i])

\* a split at index 0 instead of the median
SplitBucketAtStart(bucket) ==
  LET Halves(sorted) == <<SubSeq(sorted, 1, 0), sorted>>
  IN  Halves(SortByChannel(bucket, findLargestRange(bucket)))

\* the two halves of the bucket sorted by its widest channel
SplitBucket(bucket) ==
  LET Halves(sorted, median) ==
        <<SubSeq(sorted, 1, median), SubSeq(sorted, median + 1, Len(sorted))>>
  IN  Halves(SortByChannel(bucket, findLargestRange(bucket)), Len(bucket) \div 2)

\* the cut loop stopping one bucket late
RECURSIVE CutLoopOneMore(_, _)
CutLoopOneMore(buckets, targetColors) ==
  IF Len(buckets) > targetColors THEN buckets
  ELSE LET Cut(i) ==
             IF Len(buckets[i]) <= 1 THEN buckets
             ELSE CutLoopOneMore(SubSeq(buckets, 1, i - 1) \o SplitBucket(buckets[i])
                                   \o SubSeq(buckets, i + 1, Len(buckets)),
                                 targetColors)
       IN  Cut(MaxBucketIndex(buckets))

\* the while loop of medianCut
RECURSIVE CutLoop(_, _)
CutLoop(buckets, targetColors) ==
  IF Len(buckets) >= targetColors THEN buckets
  ELSE LET Cut(i) ==
             IF Len(buckets[i]) <= 1 THEN buckets
             ELSE CutLoop(SubSeq(buckets, 1, i - 1) \o SplitBucket(buckets[i])
                            \o SubSeq(buckets, i + 1, Len(buckets)),
                          targetColors)
       IN  Cut(MaxBucketIndex(buckets))

\* sum of s[lo..hi][channel], halving the range
RECURSIVE SumChannel(_, _, _, _)
SumChannel(s, channel, lo, hi) ==
  IF lo > hi THEN 0
  ELSE IF lo = hi THEN s[lo][channel]
  ELSE LET mid == (lo + hi) \div 2
       IN  SumChannel(s, channel, lo, mid) + SumChannel(s, channel, mid + 1, hi)

\* Math.round(sum / n) for sum >= 0, n > 0
RoundDiv(sum, n) == (2 * sum + n) \div (2 * n)

Swatch(r, g, b, population, isVibrant, isBrandColor) ==
  [r |-> r, g |-> g, b |-> b, population |-> population,
   isVibrant |-> isVibrant, isBrandColor |-> isBrandColor]

BucketColor(bucket) ==
  Swatch(RoundDiv(SumChannel(bucket, "r", 1, Len(bucket)), Len(bucket)),
         RoundDiv(SumChannel(bucket, "g", 1, Len(bucket)), Len(bucket)),
         RoundDiv(SumChannel(bucket, "b", 1, Len(bucket)), Len(bucket)),
         Len(bucket), FALSE, FALSE)

medianCut(pixels, targetColors) ==
  IF Len(pixels) = 0 THEN <<>>
  ELSE LET Colors(buckets) == [i \in 1..Len(buckets) |-> BucketColor(buckets[i])]
       IN  Colors(SelectSeq(CutLoop(<<pixels>>, targetColors),
                            LAMBDA bucket : Len(bucket) # 0))

\* the caller's pixel array after medianCut: the first split sorts it in place
PixelsAfterMedianCut(pixels, targetColors) ==
  IF Len(pixels) > 1 /\ targetColors > 1
  THEN SortByChannel(pixels, findLargestRange(pixels))
  ELSE pixels

\* ------------------------------------------------------------------------
\* REMOVE DUPLICATES
\* ------------------------------------------------------------------------

\* a merge target search that stops at the first entry
ClosestIndexFirst(color, filtered) == 1

\* index of the first entry of filtered at minimal distance from color
ClosestIndex(color, filtered) ==
  CHOOSE i \in 1..Len(filtered) :
    /\ \A j \in 1..Len(filtered) :
         colorDistance(color, filtered[i]) <= colorDistance(color, filtered[j])
    /\ \A j \in 1..(i - 1) :
         colorDistance(color, filtered[i]) < colorDistance(color, filtered[j])

\* a merge that keeps the colour with the larger population
MergeColorByPopulation(filtered, color, threshold) ==
  IF ~\E i \in 1..Len(filtered) : DistanceLT(color, filtered[i], threshold)
  THEN Append(filtered, color)
  ELSE LET Merge(ci, combinedPopulation) ==
             IF color.population > filtered[ci].population
             THEN [filtered EXCEPT ![ci] = [color EXCEPT !.population = combinedPopulation]]
             ELSE [filtered EXCEPT ![ci].population = combinedPopulation]
           Into(ci) == Merge(ci, filtered[ci].population + color.population)
       IN  Into(ClosestIndex(color, filtered))

\* one iteration of the forEach of removeDuplicates
MergeColor(filtered, color, threshold) ==
  IF ~\E i \in 1..Len(filtered) : DistanceLT(color, filtered[i], threshold)
  THEN Append(filtered, color)
  ELSE LET Merge(ci, combinedPopulation) ==
             IF Sat(color) > Sat(filtered[ci])
             THEN [filtered EXCEPT ![ci] = [color EXCEPT !.population = combinedPopulation]]
             ELSE [filtered EXCEPT ![ci].population = combinedPopulation]
           Into(ci) == Merge(ci, filtered[ci].population + color.population)
       IN  Into(ClosestIndex(color, filtered))

RECURSIVE DedupFrom(_, _, _, _)
DedupFrom(colors, i, filtered, threshold) ==
  IF i > Len(colors) THEN filtered
  ELSE DedupFrom(colors, i + 1, MergeColor(filtered, colors[i], threshold), threshold)

removeDuplicates(colors, threshold) == DedupFrom(colors, 1, <<>>, threshold)

\* ------------------------------------------------------------------------
\* ACCENT RECOVERY (VIBRANT AND BRAND PASSES)
\* ------------------------------------------------------------------------

\* indices of keys in the order of a stable descending sort
RECURSIVE OrderDesc(_, _)
OrderDesc(keys, vals) ==
  IF vals = {} THEN <<>>
  ELSE LET v == SetMax(vals)
       IN  SelectSeq([i \in 1..Len(keys) |-> i], LAMBDA i : keys[i] = v)
             \o OrderDesc(keys, vals \ {v})

\* seq.sort((a, b) => key(b) - key(a)) given the keys of its elements
SortDescByKeys(seq, keys) ==
  LET order == OrderDesc(keys, {keys[i] : i \in 1..Len(keys)})
  IN  [i \in 1..Len(seq) |-> seq[order[i]]]

\* seq.sort((a, b) => Key(b) - Key(a))
SortDescBy(seq, Key(_)) == SortDescByKeys(seq, [i \in 1..Len(seq) |-> Key(seq[i])])

SortBySatDesc(pixels) == SortDescBy(pixels, Sat)

AverageColor(topPixels, population, isVibrant, isBrandColor) ==
  Swatch(RoundDiv(SumChannel(topPixels, "r", 1, Len(topPixels)), Len(topPixels)),
         RoundDiv(SumChannel(topPixels, "g", 1, Len(topPixels)), Len(topPixels)),
         RoundDiv(SumChannel(topPixels, "b", 1, Len(topPixels)), Len(topPixels)),
         population, isVibrant, isBrandColor)

RECURSIVE Concat(_)
Concat(seqs) == IF seqs = <<>> THEN <<>> ELSE Head(seqs) \o Concat(Tail(seqs))

\* sat >= 0.25 and 0.10 <= l <= 0.90
VibrantAdmits(p) ==
  LET Admits(hsl) == ~(hsl.s < 250000) /\ ~(hsl.l < 100000 \/ hsl.l > 900000)
  IN  Admits(Hsl(p))

\* Math.floor(hsl.h / 20) % 18
HueBucketIndex(p) == (Hsl(p).h \div 20000) % 18

\* the duplicate test with its former factor 1.3
VibrantIsDuplicateFormer(avg, existingPalette) ==
  \E i \in 1..Len(existingPalette) :
    LET Weaker(existingHsl, avgHsl) ==
          /\ isSimilarHue(existingHsl, avgHsl, 25)
          /\ avgHsl.s * 100 <= existingHsl.s * 130
    IN  \/ DistanceLT(avg, existingPalette[i], 35)
        \/ Weaker(Hsl(existingPalette[i]), Hsl(avg))

VibrantIsDuplicate(avg, existingPalette) ==
  \E i \in 1..Len(existingPalette) :
    LET Weaker(existingHsl, avgHsl) ==
          /\ isSimilarHue(existingHsl, avgHsl, 25)
          /\ avgHsl.s * 100 <= existingHsl.s * 115
    IN  \/ DistanceLT(avg, existingPalette[i], 35)
        \/ Weaker(Hsl(existingPalette[i]), Hsl(avg))

\* avg: the mean of the most saturated 5% of a hue bucket, at least 5 pixels
VibrantAverage(bucket) ==
  AverageColor(SubSeq(SortBySatDesc(bucket), 1, Max2(5, Len(bucket) \div 20)),
               Len(bucket), TRUE, FALSE)

\* the candidate of one hue slice: a sequence of zero or one swatch
VibrantCandidate(bucket, existingPalette) ==
  IF Len(bucket) < 5 THEN <<>>
  ELSE LET Keep(avg) ==
             IF ~VibrantIsDuplicate(avg, existingPalette) /\ Sat(avg) > 350000
             THEN <<avg>> ELSE <<>>
       IN  Keep(VibrantAverage(bucket))

extractVibrantColors(pixels, existingPalette) ==
  LET Slices(admitted) ==
        Concat([k \in 1..18 |->
          VibrantCandidate(SelectSeq(admitted, LAMBDA p : HueBucketIndex(p) = k - 1),
                           existingPalette)])
  IN  Slices(SelectSeq(pixels, VibrantAdmits))

\* red, orange, yellow, green, blue, purple, red2 : [min, max) in degrees
hueRanges ==
  << <<0, 30>>, <<30, 60>>, <<60, 90>>, <<90, 180>>,
     <<180, 270>>, <<270, 330>>, <<330, 360>> >>

\* sat >= 0.45 and 0.12 <= l <= 0.88
BrandAdmits(p) ==
  LET Admits(hsl) == ~(hsl.s < 450000) /\ ~(hsl.l < 120000 \/ hsl.l > 880000)
  IN  Admits(Hsl(p))

InHueRange(p, k) ==
  LET In(h, range) == h >= range[1] * 1000 /\ h < range[2] * 1000
  IN  In(Hsl(p).h, hueRanges[k])

BrandIsDuplicate(avg, existingPalette) ==
  \E i \in 1..Len(existingPalette) :
    LET Weaker(existingHsl, avgHsl) ==
          /\ isSimilarHue(existingHsl, avgHsl, 20)
          /\ existingHsl.s >= avgHsl.s
    IN  \/ DistanceLT(avg, existingPalette[i], 30)
        \/ Weaker(Hsl(existingPalette[i]), Hsl(avg))

\* the Brand pass asking for 5 pixels in a hue range, as the Vibrant pass does
BrandCandidateMinPopulation(rangePixels, existingPalette) ==
  IF Len(rangePixels) < 5 THEN <<>>
  ELSE LET Keep(avg) ==
             IF ~BrandIsDuplicate(avg, existingPalette) /\ Sat(avg) > 400000
             THEN <<avg>> ELSE <<>>
       IN  Keep(AverageColor(SubSeq(SortBySatDesc(rangePixels), 1,
                                    Min2(3, Len(rangePixels))),
                             Len(rangePixels), TRUE, TRUE))

BrandCandidate(rangePixels, existingPalette) ==
  IF Len(rangePixels) = 0 THEN <<>>
  ELSE LET Keep(avg) ==
             IF ~BrandIsDuplicate(avg, existingPalette) /\ Sat(avg) > 400000
             THEN <<avg>> ELSE <<>>
       IN  Keep(AverageColor(SubSeq(SortBySatDesc(rangePixels), 1,
                                    Min2(3, Len(rangePixels))),
                             Len(rangePixels), TRUE, TRUE))

extractBrandColors(pixels, existingPalette) ==
  LET Ranges(admitted) ==
        Concat([k \in 1..7 |->
          BrandCandidate(SelectSeq(admitted, LAMBDA p : InHueRange(p, k)),
                         existingPalette)])
  IN  Ranges(SelectSeq(pixels, BrandAdmits))

\* ------------------------------------------------------------------------
\* IMAGE PROCESSING: PALETTE ASSEMBLY
\* ------------------------------------------------------------------------

\* twice the class boost: 2.5 brand, 2.0 vibrant, 1 otherwise
Boost2(c) == IF c.isBrandColor THEN 5 ELSE IF c.isVibrant THEN 4 ELSE 2

SortByBoostedPopulation(pal) ==
  SortDescBy(pal, LAMBDA c : c.population * Boost2(c))

\* palette plus the accents found, deduplicated only when some were found
WithAccents(pal, accents, threshold) ==
  IF Len(accents) > 0 THEN removeDuplicates(pal \o accents, threshold) ELSE pal

\* the palette after the Vibrant pass; sortedPixels is the pixel array as
\* medianCut left it
PaletteAfterVibrant(pixels, sortedPixels) ==
  LET With(base) == WithAccents(base, extractVibrantColors(sortedPixels, base), 45)
  IN  With(removeDuplicates(medianCut(pixels, 20), 30))

PaletteAfterBrand(pixels, sortedPixels) ==
  LET With(pal) == WithAccents(pal, extractBrandColors(sortedPixels, pal), 40)
  IN  With(PaletteAfterVibrant(pixels, sortedPixels))

\* the ranked palette kept whole
AssemblePaletteNoSlice(pixels) ==
  SortByBoostedPopulation(PaletteAfterBrand(pixels, PixelsAfterMedianCut(pixels, 20)))

\* extractedPalette as img.onload computes it from the extracted pixels
AssemblePalette(pixels) ==
  LET Top(sorted) == SubSeq(sorted, 1, Min2(16, Len(sorted)))
  IN  Top(SortByBoostedPopulation(
            PaletteAfterBrand(pixels, PixelsAfterMedianCut(pixels, 20))))

\* ------------------------------------------------------------------------
\* TOKEN MAPPING: helpers of generateTokens
\* ------------------------------------------------------------------------

AColor(r, g, b, population, isVibrant, isBrandColor, hex) ==
  [r |-> r, g |-> g, b |-> b, population |-> population,
   isVibrant |-> isVibrant, isBrandColor |-> isBrandColor, hex |-> hex,
   luminance |-> getLuminance(r, g, b), saturation |-> getSaturation(r, g, b)]

\* null / undefined where the source expects a colour object
NullColor ==
  [r |-> 0 - 1, g |-> 0 - 1, b |-> 0 - 1, population |-> 0,
   isVibrant |-> FALSE, isBrandColor |-> FALSE, hex |-> NullStr,
   luminance |-> 0, saturation |-> 0]

IsNull(c) == c.r < 0

\* palette.map(c => ({...c, hex, luminance, saturation}))
Analyze(pal) ==
  [i \in 1..Len(pal) |->
     AColor(pal[i].r, pal[i].g, pal[i].b, pal[i].population,
            pal[i].isVibrant, pal[i].isBrandColor,
            rgbToHex(pal[i].r, pal[i].g, pal[i].b))]

\* seq.sort(descending by key)[0], undefined when seq is empty
FirstMax(seq, keys) ==
  IF Len(seq) = 0 THEN NullColor
  ELSE seq[CHOOSE i \in 1..Len(seq) :
             /\ \A j \in 1..Len(seq) : keys[j] <= keys[i]
             /\ \A j \in 1..(i - 1) : keys[j] < keys[i]]

\* seq.find(pred), undefined when nothing matches
First(seq) == IF Len(seq) = 0 THEN NullColor ELSE seq[1]
FindFirst(seq, Pred(_)) == First(SelectSeq(seq, Pred))

\* seq.sort(descending by Key)[0]
FirstMaxBy(seq, Key(_)) == FirstMax(seq, [i \in 1..Len(seq) |-> Key(seq[i])])

\* findBest(filter) with the default sort key 'population'
findBest(analyzed, Filter(_)) ==
  FirstMaxBy(SelectSeq(analyzed, Filter), LAMBDA c : c.population)

\* a || b for colour objects
OrElse(a, b) == IF ~IsNull(a) THEN a ELSE b

\* useColor without its fallback
useColorNoFallback(color, fallbackHex) == color.hex

useColor(color, fallbackHex) ==
  IF ~IsNull(color) THEN color.hex ELSE fallbackHex

\* ensureContrast taking a candidate without testing it
ensureContrastTrusting(candidateHex, backgroundRgb, num, den, fallbackLight, fallbackDark) ==
  IF Truthy(candidateHex) THEN candidateHex
  ELSE IF RatioGE(Lum(hexToRgb(fallbackLight)), Lum(backgroundRgb), num, den)
       THEN fallbackLight
  ELSE fallbackDark

\* ensureContrast going straight to its second fallback
ensureContrastSecondFallback(candidateHex, backgroundRgb, num, den, fallbackLight, fallbackDark) ==
  IF Truthy(candidateHex) /\ RatioGE(Lum(hexToRgb(candidateHex)), Lum(backgroundRgb), num, den)
  THEN candidateHex
  ELSE fallbackDark

\* minContrast = num / den
ensureContrast(candidateHex, backgroundRgb, num, den, fallbackLight, fallbackDark) ==
  LET Choose(bgLum, lightLum, darkLum) ==
        IF Truthy(candidateHex) /\ RatioGE(Lum(hexToRgb(candidateHex)), bgLum, num, den)
        THEN candidateHex
        ELSE IF RatioGE(lightLum, bgLum, num, den) THEN fallbackLight
        ELSE IF RatioGE(darkLum, bgLum, num, den) THEN fallbackDark
        ELSE IF Ratio(lightLum, bgLum) > Ratio(darkLum, bgLum)
             THEN fallbackLight ELSE fallbackDark
  IN  Choose(Lum(backgroundRgb), Lum(hexToRgb(fallbackLight)), Lum(hexToRgb(fallbackDark)))

\* a lock resolved against the palette only
LockedColorPaletteOnly(analyzed, locked) ==
  FindFirst(analyzed, LAMBDA c : toLowerCase(c.hex) = toLowerCase(locked))

\* a truthy lock resolved to a colour: the palette entry with that hex
\* (compared in lower case), else the parsed string itself, else null
LockedColor(analyzed, locked) ==
  LET Parsed(rgb) ==
        IF ~IsNull(rgb) THEN AColor(rgb.r, rgb.g, rgb.b, 0, FALSE, FALSE, locked)
        ELSE NullColor
  IN  OrElse(FindFirst(analyzed, LAMBDA c : toLowerCase(c.hex) = toLowerCase(locked)),
             Parsed(hexToRgb(locked)))

LumOfHex(hex) == Lum(hexToRgb(hex))

\* palette.find(p => rgbToHex(p) === c.hex)?.isVibrant || false
PaletteIsVibrant(pal, c) ==
  LET Flag(hits) == IF Len(hits) = 0 THEN FALSE ELSE hits[1].isVibrant
  IN  Flag(SelectSeq(pal, LAMBDA p :
             toLowerCase(rgbToHex(p.r, p.g, p.b)) = toLowerCase(c.hex)))

\* primaryCandidates[0] with isVibrant looked up in the palette
WithPaletteVibrant(pal, c) ==
  IF IsNull(c) THEN c ELSE [c EXCEPT !.isVibrant = PaletteIsVibrant(pal, c)]

\* the forEach of findMostVibrantVariant from entry i on
RECURSIVE VariantFrom(_, _, _, _, _)
VariantFrom(colorHsl, pal, i, bestMatch, bestSaturation) ==
  LET Visit(p, pHsl) ==
        IF /\ isSimilarHue(colorHsl, pHsl, 35)
           /\ pHsl.s > bestSaturation
           /\ pHsl.l > 250000
           /\ pHsl.l < 750000
        THEN VariantFrom(colorHsl, pal, i + 1, p, pHsl.s)
        ELSE VariantFrom(colorHsl, pal, i + 1, bestMatch, bestSaturation)
  IN  IF i > Len(pal) THEN bestMatch ELSE Visit(pal[i], Hsl(pal[i]))

\* color is {r, g, b}; the result is color itself or a palette swatch
findMostVibrantVariant(color, pal) ==
  LET Search(colorHsl) ==
        VariantFrom(colorHsl, pal, 1,
                    Swatch(color.r, color.g, color.b, 0, FALSE, FALSE), colorHsl.s)
  IN  Search(Hsl(color))

White == Rgb(255, 255, 255)
Black == Rgb(0, 0, 0)

\* {...moreVibrant, hex, luminance, saturation}
Reanalyze(p) ==
  AColor(p.r, p.g, p.b, p.population, p.isVibrant, p.isBrandColor,
         rgbToHex(p.r, p.g, p.b))

\* the local variables of one mode of generateTokens
Locals(pal, lockedPrimary, lockedBg, lightPrimary) ==
  [palette |-> pal, analyzed |-> Analyze(pal), lockedPrimary |-> lockedPrimary,
   lockedBg |-> lockedBg, lightPrimary |-> lightPrimary,
   bgCandidate |-> NullColor, primaryColor |-> NullColor,
   bg |-> NullStr, surface |-> NullStr, border |-> NullStr, heading |-> NullStr,
   text |-> NullStr, mutedText |-> NullStr, primary |-> NullStr, onPrimary |-> NullStr]

\* heading/text need 4.5 on bg, mutedText 3.0
BgFailsText(bgRgb, t) ==
  \/ ContrastLT(hexToRgb(t.heading), bgRgb, 45, 10)
  \/ ContrastLT(hexToRgb(t.text), bgRgb, 45, 10)
  \/ ContrastLT(hexToRgb(t.mutedText), bgRgb, 3, 1)

\* the second candidate: the first with another hex, else the first one
TextCandidate(candidates) ==
  OrElse(FindFirst(candidates, LAMBDA c : c.hex # First(candidates).hex),
         First(candidates))

\* heading and text without the luminance swap
HeadingTextPairNoSwap(t, heading, text, swap, forcedHeading, forcedText) ==
  IF heading = text
  THEN [t EXCEPT !.heading = forcedHeading, !.text = forcedText]
  ELSE [t EXCEPT !.heading = heading, !.text = text]

\* heading and text without the forced pair
HeadingTextPairNoForce(t, heading, text, swap, forcedHeading, forcedText) ==
  IF swap THEN [t EXCEPT !.heading = text, !.text = heading]
  ELSE [t EXCEPT !.heading = heading, !.text = text]

\* [heading, text] swapped if out of luminance order, forced apart if equal
HeadingTextPair(t, heading, text, swap, forcedHeading, forcedText) ==
  IF heading = text
  THEN [t EXCEPT !.heading = forcedHeading, !.text = forcedText]
  ELSE IF swap THEN [t EXCEPT !.heading = text, !.text = heading]
  ELSE [t EXCEPT !.heading = heading, !.text = text]

\* relaxed fallback candidates: saturation >= 0.15, contrast >= num/den,
\* luminance within [lo, hi]; the most saturated first
RelaxedPrimary(t, num, den, lo, hi) ==
  FirstMaxBy(SelectSeq(t.analyzed, LAMBDA c :
               /\ ~(c.saturation < 150000)
               /\ c.hex \notin {t.heading, t.text, t.mutedText}
               /\ ~ContrastLT(c, hexToRgb(t.surface), num, den)
               /\ ~(c.luminance < lo \/ c.luminance > hi)),
             LAMBDA c : c.saturation)

TokenSet(t) ==
  [bg |-> t.bg, surface |-> t.surface, border |-> t.border, heading |-> t.heading,
   text |-> t.text, mutedText |-> t.mutedText, primary |-> t.primary,
   onPrimary |-> t.onPrimary]

\* ------------------------------------------------------------------------
\* LIGHT MODE TOKEN GENERATION
\* Each stage takes the local variables t and returns them updated.
\* ------------------------------------------------------------------------

LIGHT_BG_FALLBACK == HexStr(247, 247, 247)       \* '#f7f7f7'
LIGHT_SURFACE_FALLBACK == HexStr(255, 255, 255)  \* '#ffffff'
LIGHT_BORDER_FALLBACK == HexStr(224, 224, 224)   \* '#e0e0e0'
LIGHT_PRIMARY_FALLBACK == HexStr(0, 113, 227)    \* '#0071e3'
HexWhite == HexStr(255, 255, 255)
HexBlack == HexStr(0, 0, 0)

lightBg(t) ==
  LET Use(lightBgCandidate) ==
        [t EXCEPT !.bgCandidate = lightBgCandidate,
                  !.bg = useColor(lightBgCandidate, LIGHT_BG_FALLBACK)]
  IN  IF Truthy(t.lockedBg)
      THEN Use(LockedColor(t.analyzed, t.lockedBg))
      ELSE Use(findBest(t.analyzed, LAMBDA c : c.luminance > 750000 /\ c.saturation < 200000))

\* the surface chosen with no lower bound on its luminance
lightSurfaceAnyLuminance(t) ==
  LET Use(surface) ==
        [t EXCEPT !.surface = IF surface = t.bg THEN LIGHT_SURFACE_FALLBACK ELSE surface]
  IN  Use(useColor(findBest(t.analyzed, LAMBDA c :
                     /\ c.saturation < 120000
                     /\ (IsNull(t.bgCandidate) \/ c.hex # t.bgCandidate.hex)),
                   LIGHT_SURFACE_FALLBACK))

lightSurface(t) ==
  LET Use(surface) ==
        [t EXCEPT !.surface = IF surface = t.bg THEN LIGHT_SURFACE_FALLBACK ELSE surface]
  IN  Use(useColor(findBest(t.analyzed, LAMBDA c :
                     /\ c.luminance > 850000
                     /\ c.saturation < 120000
                     /\ (IsNull(t.bgCandidate) \/ c.hex # t.bgCandidate.hex)),
                   LIGHT_SURFACE_FALLBACK))

lightBorder(t) ==
  LET Candidate(lightSurfaceLuminance) ==
        findBest(t.analyzed, LAMBDA c :
          /\ c.luminance < lightSurfaceLuminance
          /\ c.luminance > 500000
          /\ c.luminance < 950000
          /\ c.saturation < 150000
          /\ c.hex # t.bg
          /\ c.hex # t.surface)
  IN  [t EXCEPT !.border = useColor(Candidate(LumOfHex(t.surface)), LIGHT_BORDER_FALLBACK)]

LIGHT_TEXT_MAX_SATURATION == 250000

\* filtered and sorted by textScore = (1 - luminance) * 2 - saturation * 2
lightHeadingCandidates(analyzed, surfaceRgb) ==
  SortDescBy(SelectSeq(analyzed, LAMBDA c :
               IF c.saturation > LIGHT_TEXT_MAX_SATURATION THEN FALSE
               ELSE IF IsNull(surfaceRgb) THEN c.luminance < 200000
               ELSE ContrastGE(c, surfaceRgb, 45, 10)),
             LAMBDA c : (Scale - c.luminance) * 2 - c.saturation * 2)

\* heading and text after ensureContrast, the luminance swap and the forced pair
lightHeadingText(t) ==
  LET Pair(heading, text) ==
        HeadingTextPair(t, heading, text, LumOfHex(text) < LumOfHex(heading),
                        HexStr(26, 26, 26), HexStr(68, 68, 68))
      From(candidates, bgRgb) ==
        Pair(ensureContrast(First(candidates).hex, bgRgb, 45, 10,
                            HexStr(26, 26, 26), HexStr(0, 0, 0)),
             ensureContrast(TextCandidate(candidates).hex, bgRgb, 45, 10,
                            HexStr(51, 51, 51), HexStr(17, 17, 17)))
      On(surfaceRgb) ==
        From(lightHeadingCandidates(t.analyzed, surfaceRgb),
             IF IsNull(surfaceRgb) THEN White ELSE surfaceRgb)
  IN  On(hexToRgb(t.surface))

\* mutedScore = (1 - |luminance - 0.4|) - saturation ; minimum contrast 5.5
lightMutedText(t) ==
  LET Best(surfaceRgb, textLuminance) ==
        FirstMaxBy(SelectSeq(t.analyzed, LAMBDA c :
                     IF c.saturation > LIGHT_TEXT_MAX_SATURATION THEN FALSE
                     ELSE IF IsNull(surfaceRgb)
                          THEN c.luminance > 200000 /\ c.luminance < 500000
                     ELSE /\ ContrastGE(c, surfaceRgb, 4, 1)
                          /\ ContrastLT(c, surfaceRgb, 7, 1)
                          /\ c.luminance > textLuminance
                          /\ c.hex # t.heading
                          /\ c.hex # t.text),
                   LAMBDA c : (Scale - Abs(c.luminance - 400000)) - c.saturation)
      On(surfaceRgb) ==
        [t EXCEPT !.mutedText =
           ensureContrast(Best(surfaceRgb, LumOfHex(t.text)).hex,
                          IF IsNull(surfaceRgb) THEN White ELSE surfaceRgb,
                          55, 10, HexStr(85, 85, 85), HexStr(68, 68, 68))]
  IN  On(hexToRgb(t.surface))

\* VALIDATION: the bg token after the contrast re-check
lightBgValidated(t) ==
  LET Replace(valid) ==
        IF Len(valid) > 0
        THEN [t EXCEPT !.bg = FirstMaxBy(valid, LAMBDA c : c.luminance).hex]
        ELSE [t EXCEPT !.bg = LIGHT_BG_FALLBACK]
      Check(lightBgRgb) ==
        IF /\ ~IsNull(lightBgRgb)
           /\ ~Truthy(t.lockedBg)
           /\ BgFailsText(lightBgRgb, t)
        THEN Replace(SelectSeq(t.analyzed, LAMBDA c :
                       /\ ~(c.luminance < 650000)
                       /\ ~BgFailsText(Rgb(c.r, c.g, c.b), t)))
        ELSE t
  IN  Check(hexToRgb(t.bg))

\* primaryScore of an analyzed colour in light mode, in millionths
lightPrimaryScore(pal, c, surfaceRgb) ==
  LET saturationScore == c.saturation * 4
      vibrantBonus == IF PaletteIsVibrant(pal, c) THEN 2500000 ELSE 0
      luminanceScore == Scale - Abs(c.luminance - 450000)
      populationScore == MathLog(c.population + 1) \div 12
      contrastBonus == Min2(getContrastRatio(c, surfaceRgb) * 100, 500000)
      lightPenalty == IF c.luminance > 850000 THEN 2000000
                      ELSE IF c.luminance > 750000 THEN 800000
                      ELSE IF c.luminance > 650000 THEN 300000 ELSE 0
      darkPenalty == IF c.luminance < 150000 THEN 3000000
                     ELSE IF c.luminance < 250000 THEN 1000000 ELSE 0
  IN  saturationScore + vibrantBonus + luminanceScore + populationScore
        + contrastBonus - lightPenalty - darkPenalty

\* Fix: prefer a more vibrant palette colour of the same hue
lightVibrantVariant(pal, primary, surfaceRgb) ==
  LET Prefer(moreVibrant) ==
        IF /\ Sat(moreVibrant) * 10 > primary.saturation * 12
           /\ ContrastGE(moreVibrant, surfaceRgb, 3, 1)
        THEN Reanalyze(moreVibrant)
        ELSE primary
  IN  IF ~IsNull(primary) /\ ~primary.isVibrant /\ primary.hex # LIGHT_PRIMARY_FALLBACK
      THEN Prefer(findMostVibrantVariant(hexToRgb(primary.hex), pal))
      ELSE primary

\* the primary candidates after the strict filter, best score first
lightScoredPrimary(t) ==
  WithPaletteVibrant(t.palette,
    FirstMaxBy(SelectSeq(t.analyzed, LAMBDA c :
                 /\ ~(c.saturation < 200000)
                 /\ c.hex \notin {t.heading, t.text, t.mutedText}
                 /\ ~ContrastLT(c, hexToRgb(t.surface), 25, 10)),
               LAMBDA c : lightPrimaryScore(t.palette, c, hexToRgb(t.surface))))

\* the colour object lightPrimary at the end of the selection
lightPrimaryColor(t) ==
  LET Algorithmic ==
        lightVibrantVariant(t.palette,
          OrElse(OrElse(OrElse(lightScoredPrimary(t),
                               RelaxedPrimary(t, 25, 10, 150000, 850000)),
                        RelaxedPrimary(t, 2, 1, 150000, 850000)),
                 AColor(0, 113, 227, 0, FALSE, FALSE, LIGHT_PRIMARY_FALLBACK)),
          hexToRgb(t.surface))
  IN  [t EXCEPT !.primaryColor =
         IF Truthy(t.lockedPrimary)
         THEN OrElse(LockedColor(t.analyzed, t.lockedPrimary), Algorithmic)
         ELSE Algorithmic]

\* a palette colour that reaches 4.5 with white or black, else the default
lightBetterPrimary(t) ==
  LET Use(betterPrimary) ==
        IF ~IsNull(betterPrimary)
        THEN [t EXCEPT !.primary = betterPrimary.hex,
                       !.onPrimary = IF ContrastGE(betterPrimary, White, 45, 10)
                                     THEN HexWhite ELSE HexBlack]
        ELSE [t EXCEPT !.primary = LIGHT_PRIMARY_FALLBACK, !.onPrimary = HexWhite]
  IN  Use(FindFirst(t.analyzed, LAMBDA c :
            /\ (ContrastGE(c, White, 45, 10) \/ ContrastGE(c, Black, 45, 10))
            /\ c.saturation > 200000))

\* primary and onPrimary of light mode with white on every primary
lightPrimaryTokensWhite(t) ==
  IF IsNull(t.primaryColor)
  THEN [t EXCEPT !.primary = LIGHT_PRIMARY_FALLBACK, !.onPrimary = HexWhite]
  ELSE [t EXCEPT !.primary = t.primaryColor.hex, !.onPrimary = HexWhite]

\* primary and onPrimary of light mode
lightPrimaryTokens(t) ==
  LET Tokens(contrastWithWhite, contrastWithBlack) ==
        IF contrastWithWhite >= 4500
        THEN [t EXCEPT !.primary = t.primaryColor.hex, !.onPrimary = HexWhite]
        ELSE IF contrastWithBlack >= 4500
        THEN [t EXCEPT !.primary = t.primaryColor.hex, !.onPrimary = HexBlack]
        ELSE IF ~Truthy(t.lockedPrimary) THEN lightBetterPrimary(t)
        ELSE [t EXCEPT !.primary = t.primaryColor.hex,
                       !.onPrimary = IF contrastWithWhite > contrastWithBlack
                                     THEN HexWhite ELSE HexBlack]
  IN  IF IsNull(t.primaryColor)
      THEN [t EXCEPT !.primary = LIGHT_PRIMARY_FALLBACK, !.onPrimary = HexWhite]
      ELSE Tokens(getContrastRatio(t.primaryColor, White),
                  getContrastRatio(t.primaryColor, Black))

\* the local variables when lightPrimary has been selected
LightSelection(pal, lockedPrimary, lockedLightBg) ==
  lightPrimaryColor(lightBgValidated(lightMutedText(
    lightHeadingText(lightBorder(lightSurface(lightBg(
      Locals(pal, lockedPrimary, lockedLightBg, NullColor))))))))

\* the local variables at the end of the light mode section
LightMode(pal, lockedPrimary, lockedLightBg) ==
  lightPrimaryTokens(LightSelection(pal, lockedPrimary, lockedLightBg))

\* ------------------------------------------------------------------------
\* DARK MODE TOKEN GENERATION
\* ------------------------------------------------------------------------

DARK_BG_FALLBACK == HexStr(11, 11, 11)         \* '#0b0b0b'
DARK_SURFACE_FALLBACK == HexStr(20, 20, 20)    \* '#141414'
DARK_BORDER_FALLBACK == HexStr(42, 42, 42)     \* '#2a2a2a'
DARK_PRIMARY_FALLBACK == HexStr(64, 156, 255)  \* '#409cff'

darkBg(t) ==
  LET Use(darkBgCandidate) ==
        [t EXCEPT !.bgCandidate = darkBgCandidate,
                  !.bg = useColor(darkBgCandidate, DARK_BG_FALLBACK)]
  IN  IF Truthy(t.lockedBg)
      THEN Use(LockedColor(t.analyzed, t.lockedBg))
      ELSE Use(findBest(t.analyzed, LAMBDA c : c.luminance < 60000 /\ c.saturation < 200000))

darkSurface(t) ==
  LET Use(surface) ==
        [t EXCEPT !.surface = IF surface = t.bg THEN DARK_SURFACE_FALLBACK ELSE surface]
      Candidate(bgLuminance) ==
        findBest(t.analyzed, LAMBDA c :
          /\ c.luminance > bgLuminance
          /\ c.luminance < 50000
          /\ c.saturation < 150000
          /\ (IsNull(t.bgCandidate) \/ c.hex # t.bgCandidate.hex))
  IN  Use(useColor(Candidate(LumOfHex(t.bg)), DARK_SURFACE_FALLBACK))

darkBorder(t) ==
  LET Candidate(surfaceLuminance) ==
        findBest(t.analyzed, LAMBDA c :
          /\ c.luminance > surfaceLuminance
          /\ c.luminance < 350000
          /\ c.saturation < 200000
          /\ c.hex # t.bg
          /\ c.hex # t.surface)
  IN  [t EXCEPT !.border = useColor(Candidate(LumOfHex(t.surface)), DARK_BORDER_FALLBACK)]

DARK_TEXT_MAX_SATURATION == 250000

\* filtered and sorted by textScore = luminance * 2 - saturation * 2
darkHeadingCandidates(analyzed, darkSurfaceRgb) ==
  SortDescBy(SelectSeq(analyzed, LAMBDA c :
               IF c.saturation > DARK_TEXT_MAX_SATURATION THEN FALSE
               ELSE IF IsNull(darkSurfaceRgb) THEN c.luminance > 700000
               ELSE ContrastGE(c, darkSurfaceRgb, 45, 10)),
             LAMBDA c : c.luminance * 2 - c.saturation * 2)

\* heading and text after ensureContrast, the luminance swap and the forced pair
darkHeadingText(t) ==
  LET Pair(heading, text) ==
        HeadingTextPair(t, heading, text, LumOfHex(text) > LumOfHex(heading),
                        HexStr(255, 255, 255), HexStr(192, 192, 192))
      From(candidates, bgRgb) ==
        Pair(ensureContrast(First(candidates).hex, bgRgb, 45, 10,
                            HexStr(255, 255, 255), HexStr(232, 232, 232)),
             ensureContrast(TextCandidate(candidates).hex, bgRgb, 45, 10,
                            HexStr(240, 240, 240), HexStr(212, 212, 212)))
      On(darkSurfaceRgb) ==
        From(darkHeadingCandidates(t.analyzed, darkSurfaceRgb),
             IF IsNull(darkSurfaceRgb) THEN Rgb(11, 11, 11) ELSE darkSurfaceRgb)
  IN  On(hexToRgb(t.surface))

\* mutedScore = (1 - |luminance - 0.5|) - saturation ; minimum contrast 5.5
darkMutedText(t) ==
  LET Best(darkSurfaceRgb, darkTextLuminance) ==
        FirstMaxBy(SelectSeq(t.analyzed, LAMBDA c :
                     IF c.saturation > DARK_TEXT_MAX_SATURATION THEN FALSE
                     ELSE IF IsNull(darkSurfaceRgb)
                          THEN c.luminance > 300000 /\ c.luminance < 600000
                     ELSE /\ ContrastGE(c, darkSurfaceRgb, 4, 1)
                          /\ ContrastLT(c, darkSurfaceRgb, 10, 1)
                          /\ c.luminance < darkTextLuminance
                          /\ c.hex # t.heading
                          /\ c.hex # t.text),
                   LAMBDA c : (Scale - Abs(c.luminance - 500000)) - c.saturation)
      On(darkSurfaceRgb) ==
        [t EXCEPT !.mutedText =
           ensureContrast(Best(darkSurfaceRgb, LumOfHex(t.text)).hex,
                          IF IsNull(darkSurfaceRgb) THEN Rgb(11, 11, 11) ELSE darkSurfaceRgb,
                          55, 10, HexStr(208, 208, 208), HexStr(184, 184, 184))]
  IN  On(hexToRgb(t.surface))

\* VALIDATION: the dark bg token after the contrast re-check
darkBgValidated(t) ==
  LET Replace(valid) ==
        IF Len(valid) > 0
        THEN [t EXCEPT !.bg = FirstMaxBy(valid, LAMBDA c : 0 - c.luminance).hex]
        ELSE [t EXCEPT !.bg = DARK_BG_FALLBACK]
      Check(darkBgRgb) ==
        IF /\ ~IsNull(darkBgRgb)
           /\ ~Truthy(t.lockedBg)
           /\ BgFailsText(darkBgRgb, t)
        THEN Replace(SelectSeq(t.analyzed, LAMBDA c :
                       /\ ~(c.luminance > 150000)
                       /\ ~BgFailsText(Rgb(c.r, c.g, c.b), t)))
        ELSE t
  IN  Check(hexToRgb(t.bg))

\* primaryScore of an analyzed colour in dark mode, in millionths
darkPrimaryScore(pal, c, surfaceRgb) ==
  LET saturationScore == c.saturation * 4
      vibrantBonus == IF PaletteIsVibrant(pal, c) THEN 2500000 ELSE 0
      luminanceScore == Scale - Abs(c.luminance - 450000)
      populationScore == MathLog(c.population + 1) \div 12
      contrastBonus == Min2(getContrastRatio(c, surfaceRgb) * 100, 500000)
      darkPenalty == IF c.luminance < 150000 THEN 1500000
                     ELSE IF c.luminance < 250000 THEN 500000 ELSE 0
      lightPenalty == IF c.luminance > 800000 THEN 1500000
                      ELSE IF c.luminance > 700000 THEN 500000 ELSE 0
  IN  saturationScore + vibrantBonus + luminanceScore + populationScore
        + contrastBonus - darkPenalty - lightPenalty

darkVibrantVariant(pal, primary, surfaceRgb) ==
  LET Prefer(moreVibrant) ==
        IF /\ Sat(moreVibrant) * 10 > primary.saturation * 12
           /\ Lum(moreVibrant) > 200000
           /\ ContrastGE(moreVibrant, surfaceRgb, 3, 1)
        THEN Reanalyze(moreVibrant)
        ELSE primary
  IN  IF ~IsNull(primary) /\ ~primary.isVibrant /\ primary.hex # DARK_PRIMARY_FALLBACK
      THEN Prefer(findMostVibrantVariant(hexToRgb(primary.hex), pal))
      ELSE primary

\* the primary candidates after the strict filter, best score first
darkScoredPrimary(t) ==
  WithPaletteVibrant(t.palette,
    FirstMaxBy(SelectSeq(t.analyzed, LAMBDA c :
                 /\ ~(c.saturation < 200000)
                 /\ c.hex \notin {t.heading, t.text, t.mutedText}
                 /\ ~ContrastLT(c, hexToRgb(t.surface), 25, 10)),
               LAMBDA c : darkPrimaryScore(t.palette, c, hexToRgb(t.surface))))

\* the third try without its contrast test
ReuseLightPrimaryAlways(lightPrimary, surfaceRgb) == lightPrimary

\* the dark cascade without its third try
NeverReuseLightPrimary(lightPrimary, surfaceRgb) == NullColor

\* Try 3: the light mode primary, if it has contrast >= 2.5 on the dark surface
ReuseLightPrimary(lightPrimary, surfaceRgb) ==
  LET Reuse(lpRgb) ==
        IF ~IsNull(lpRgb) /\ ContrastGE(lpRgb, surfaceRgb, 25, 10)
        THEN lightPrimary ELSE NullColor
  IN  IF IsNull(lightPrimary) THEN NullColor ELSE Reuse(hexToRgb(lightPrimary.hex))

\* the colour object darkPrimary at the end of the selection
darkPrimaryColor(t) ==
  LET Algorithmic ==
        darkVibrantVariant(t.palette,
          OrElse(OrElse(OrElse(OrElse(darkScoredPrimary(t),
                                      RelaxedPrimary(t, 25, 10, 200000, 800000)),
                               RelaxedPrimary(t, 2, 1, 200000, 800000)),
                        ReuseLightPrimary(t.lightPrimary, hexToRgb(t.surface))),
                 AColor(64, 156, 255, 0, FALSE, FALSE, DARK_PRIMARY_FALLBACK)),
          hexToRgb(t.surface))
  IN  [t EXCEPT !.primaryColor =
         IF Truthy(t.lockedPrimary)
         THEN OrElse(LockedColor(t.analyzed, t.lockedPrimary), Algorithmic)
         ELSE Algorithmic]

\* primary and onPrimary of dark mode
darkPrimaryTokens(t) ==
  LET Tokens(contrastWithWhite, contrastWithBlack) ==
        IF contrastWithWhite >= 4500
        THEN [t EXCEPT !.primary = t.primaryColor.hex, !.onPrimary = HexWhite]
        ELSE IF contrastWithBlack >= 4500
        THEN [t EXCEPT !.primary = t.primaryColor.hex, !.onPrimary = HexBlack]
        ELSE [t EXCEPT !.primary = t.primaryColor.hex,
                       !.onPrimary = IF contrastWithWhite > contrastWithBlack
                                     THEN HexWhite ELSE HexBlack]
  IN  IF IsNull(t.primaryColor)
      THEN [t EXCEPT !.primary = DARK_PRIMARY_FALLBACK, !.onPrimary = HexBlack]
      ELSE Tokens(getContrastRatio(t.primaryColor, White),
                  getContrastRatio(t.primaryColor, Black))

\* the local variables at the end of the dark mode section
DarkMode(pal, lockedPrimary, lockedDarkBg, lightPrimary) ==
  darkPrimaryTokens(darkPrimaryColor(darkBgValidated(darkMutedText(
    darkHeadingText(darkBorder(darkSurface(darkBg(
      Locals(pal, lockedPrimary, lockedDarkBg, lightPrimary)))))))))

\* generateTokens with a dark bg lock that also locks the light bg when the
\* light bg has no lock of its own
generateTokensSharedBgLock(pal, lockedPrimary, lockedLightBg, lockedDarkBg) ==
  LET Both(light) ==
        [light |-> TokenSet(light),
         dark |-> TokenSet(DarkMode(pal, lockedPrimary, lockedDarkBg, light.primaryColor))]
  IN  Both(LightMode(pal, lockedPrimary,
                     IF Truthy(lockedLightBg) THEN lockedLightBg ELSE lockedDarkBg))

\* { light: lightTokens, dark: darkTokens }
generateTokens(pal, lockedPrimary, lockedLightBg, lockedDarkBg) ==
  LET Both(light) ==
        [light |-> TokenSet(light),
         dark |-> TokenSet(DarkMode(pal, lockedPrimary, lockedDarkBg, light.primaryColor))]
  IN  Both(LightMode(pal, lockedPrimary, lockedLightBg))

\* ------------------------------------------------------------------------
\* BACKGROUND CANDIDATES OF THE PREVIEW
\* ------------------------------------------------------------------------

\* lightTokens.heading ? hexToRgb(lightTokens.heading) : null
TokenRgb(hex) == IF Truthy(hex) THEN hexToRgb(hex) ELSE NullRgb

filterLightBgCandidates(palette, lightTokens) ==
  LET Passes(c, headingRgb, textRgb, mutedRgb) ==
        /\ ~(c.luminance < 650000)
        /\ ~(~IsNull(headingRgb) /\ ContrastLT(headingRgb, c, 45, 10))
        /\ ~(~IsNull(textRgb) /\ ContrastLT(textRgb, c, 45, 10))
        /\ ~(~IsNull(mutedRgb) /\ ContrastLT(mutedRgb, c, 3, 1))
        /\ ((IsNull(headingRgb) /\ IsNull(textRgb) /\ IsNull(mutedRgb))
              => ContrastGE(c, Rgb(29, 29, 31), 45, 10))
      Filter(headingRgb, textRgb, mutedRgb) ==
        SortDescBy(SelectSeq(palette, LAMBDA c : Passes(c, headingRgb, textRgb, mutedRgb)),
                   LAMBDA c : c.luminance)
  IN  Filter(TokenRgb(lightTokens.heading), TokenRgb(lightTokens.text),
             TokenRgb(lightTokens.mutedText))

filterDarkBgCandidates(palette, darkTokens) ==
  LET Passes(c, headingRgb, textRgb, mutedRgb) ==
        /\ ~(c.luminance > 150000)
        /\ ~(~IsNull(headingRgb) /\ ContrastLT(headingRgb, c, 45, 10))
        /\ ~(~IsNull(textRgb) /\ ContrastLT(textRgb, c, 45, 10))
        /\ ~(~IsNull(mutedRgb) /\ ContrastLT(mutedRgb, c, 3, 1))
        /\ ((IsNull(headingRgb) /\ IsNull(textRgb) /\ IsNull(mutedRgb))
              => ContrastGE(c, Rgb(245, 245, 247), 45, 10))
      Filter(headingRgb, textRgb, mutedRgb) ==
        SortDescBy(SelectSeq(palette, LAMBDA c : Passes(c, headingRgb, textRgb, mutedRgb)),
                   LAMBDA c : 0 - c.luminance)
  IN  Filter(TokenRgb(darkTokens.heading), TokenRgb(darkTokens.text),
             TokenRgb(darkTokens.mutedText))

\* data-hex of the .idtt-bg-swatch elements of one preview: bgCandidates.slice(0, 6)
renderPreview(bgCandidates) ==
  [i \in 1..Min2(6, Len(bgCandidates)) |-> bgCandidates[i].hex]

\* ------------------------------------------------------------------------
\* STATE
\* ------------------------------------------------------------------------

VARIABLES
  pc,                \* "call" before the operation under study is applied, "done"
                     \* after it, "ui" while the page is running
  arg,               \* the arguments of the operation under study
  ret,               \* the result of the function under study
  extractedPalette,  \* let extractedPalette = []
  lockedPrimaryHex,  \* let lockedPrimaryHex = null
  lockedLightBgHex,  \* let lockedLightBgHex = null
  lockedDarkBgHex,   \* let lockedDarkBgHex = null
  currentTokens,     \* let currentTokens = null
  bgSwatches,        \* data-hex of the .idtt-bg-swatch elements, per mode
  history,           \* the last two UI events, each with the state it was fired in
  savedPalettes,     \* localStorage['idtt_saved_palettes'], parsed
  now,               \* Date.now(), as the number of records saved so far
  thumbnail,         \* the image behind #idtt-thumbnail's src, as its extracted pixels
  originalPixels,    \* let originalPixels = []
  loads              \* the processImage calls so far: file and progress of its callbacks

vars == <<pc, arg, ret, extractedPalette, lockedPrimaryHex, lockedLightBgHex,
          lockedDarkBgHex, currentTokens, bgSwatches, history, savedPalettes, now,
          thumbnail, originalPixels, loads>>

uiVars == <<extractedPalette, lockedPrimaryHex, lockedLightBgHex,
            lockedDarkBgHex, currentTokens, bgSwatches, history, savedPalettes, now,
            thumbnail, originalPixels, loads>>

storeVars == <<savedPalettes, now>>

loadVars == <<thumbnail, originalPixels, loads>>

\* currentTokens = null
NoTokens == [light |-> <<>>, dark |-> <<>>]
NoSwatches == [light |-> <<>>, dark |-> <<>>]
NoResult == <<>>
NoArg == <<>>
NoImage == <<>>

\* the page right after the script has run
UiInit ==
  /\ extractedPalette = <<>>
  /\ lockedPrimaryHex = NullStr
  /\ lockedLightBgHex = NullStr
  /\ lockedDarkBgHex = NullStr
  /\ currentTokens = NoTokens
  /\ bgSwatches = NoSwatches
  /\ history = <<>>
  /\ thumbnail = NoImage
  /\ originalPixels = <<>>
  /\ loads = <<>>

\* a browser that has saved nothing yet
StoreInit ==
  /\ savedPalettes = <<>>
  /\ now = 0

\* ------------------------------------------------------------------------
\* generateTokens as a function of its four arguments
\* ------------------------------------------------------------------------

MaxPaletteLen == 3

\* swatches the palettes are built from
TokenSwatches ==
  { Swatch(240, 240, 240, 50, FALSE, FALSE),   \* light neutral
    Swatch(128, 128, 128, 20, FALSE, FALSE),   \* mid gray
    Swatch(102, 102, 102, 10, FALSE, FALSE),   \* darker mid gray
    Swatch(5, 5, 5, 30, FALSE, FALSE),         \* near black
    Swatch(255, 0, 0, 3, TRUE, TRUE),          \* brand red
    Swatch(90, 110, 140, 5, FALSE, FALSE),     \* dull blue
    Swatch(40, 30, 30, 8, FALSE, FALSE) }      \* dark, slightly saturated

\* sequences of distinct swatches of length n
PalettesOfLen(n) ==
  {p \in [1..n -> TokenSwatches] : \A i, j \in 1..n : i # j => p[i] # p[j]}

Palettes == UNION {PalettesOfLen(n) : n \in 0..MaxPaletteLen}

\* absent, unparseable ("#fff"), "#ff0000", "#FF0000", "00ff00"
PrimaryLocks ==
  {NullStr, TextStr(1), HexStr(255, 0, 0), UpperHexStr(255, 0, 0), BareHexStr(0, 255, 0)}
\* absent, unparseable, "#f0f0f0"
LightBgLocks == {NullStr, TextStr(1), HexStr(240, 240, 240)}
\* absent, unparseable, "#050505"
DarkBgLocks == {NullStr, TextStr(1), HexStr(5, 5, 5)}

InitTokens ==
  /\ pc = "call"
  /\ arg \in [fn : {"generateTokens"}, palette : Palettes,
              lockedPrimary : PrimaryLocks, lockedLightBg : LightBgLocks,
              lockedDarkBg : DarkBgLocks]
  /\ ret = NoResult
  /\ UiInit
  /\ StoreInit

CallGenerateTokens ==
  /\ pc = "call"
  /\ arg.fn = "generateTokens"
  /\ ret' = generateTokens(arg.palette, arg.lockedPrimary, arg.lockedLightBg,
                           arg.lockedDarkBg)
  /\ pc' = "done"
  /\ UNCHANGED <<arg, uiVars>>

NextTokens == CallGenerateTokens

SpecTokens == InitTokens /\ [][NextTokens]_vars

TokensDone == pc = "done" /\ arg.fn = "generateTokens"

TokenNames ==
  {"bg", "surface", "border", "text", "heading", "mutedText", "primary", "onPrimary"}

Modes == {"light", "dark"}

\* a string hexToRgb parses: six hex digits, with or without '#'
ValidHex(s) == s.kind = "hex" /\ {s.r, s.g, s.b} \subseteq 0..255

\* WCAG contrast of two hex strings is at least num/den
WcagAtLeast(h1, h2, num, den) == RatioGE(LumOfHex(h1), LumOfHex(h2), num, den)

\* C1: generateTokens returns, for every palette and every combination of
\* locks, a light and a dark token set whose 8 fields are all valid hex strings
C1_TokenSetComplete ==
  TokensDone =>
    \A m \in Modes :
      /\ DOMAIN ret[m] = TokenNames
      /\ \A t \in TokenNames : ValidHex(ret[m][t])

\* C1 witness: the tokens of the empty palette under an unparseable primary lock
C1_Witness ==
  /\ TokensDone
  /\ arg.palette = <<>>
  /\ arg.lockedPrimary = TextStr(1)
  /\ ret.light.primary = LIGHT_PRIMARY_FALLBACK

\* C2: heading and text have contrast >= 4.5 against surface in both modes
C2_ContrastGuarantee ==
  TokensDone =>
    \A m \in Modes :
      /\ WcagAtLeast(ret[m].heading, ret[m].surface, 45, 10)
      /\ WcagAtLeast(ret[m].text, ret[m].surface, 45, 10)

\* C2 witness: the dark surface is a palette colour on which the mid gray has
\* too little contrast, so that dark heading and text are fallbacks, while the
\* light heading and text are palette colours
C2_Witness ==
  /\ TokensDone
  /\ arg.palette = <<Swatch(128, 128, 128, 20, FALSE, FALSE),
                     Swatch(40, 30, 30, 8, FALSE, FALSE),
                     Swatch(5, 5, 5, 30, FALSE, FALSE)>>
  /\ ret.dark.surface = HexStr(40, 30, 30)
  /\ ret.dark.heading = HexStr(255, 255, 255)
  /\ ret.dark.text = HexStr(240, 240, 240)
  /\ ret.light.heading = HexStr(5, 5, 5)
  /\ ret.light.text = HexStr(40, 30, 30)

\* C3: heading and text differ in both modes
C3_HeadingTextDistinct ==
  TokensDone => \A m \in Modes : ret[m].heading # ret[m].text

\* C3 witness: a single heading candidate, so that the forced pair is what
\* keeps heading and text apart
C3_Witness ==
  /\ TokensDone
  /\ arg.palette = <<Swatch(102, 102, 102, 10, FALSE, FALSE)>>
  /\ ret.light.heading = HexStr(26, 26, 26)
  /\ ret.light.text = HexStr(68, 68, 68)

\* some palette entry has the hex of the lock, compared in lower case
LockInPalette(pal, locked) ==
  \E i \in 1..Len(pal) :
    toLowerCase(rgbToHex(pal[i].r, pal[i].g, pal[i].b)) = toLowerCase(locked)

C5_UnparseableLockIgnored ==
  TokensDone =>
    /\ (arg.lockedPrimary.kind = "text" =>
          ret = generateTokens(arg.palette, NullStr, arg.lockedLightBg, arg.lockedDarkBg))
    /\ (arg.lockedLightBg.kind = "text" =>
          ret = generateTokens(arg.palette, arg.lockedPrimary, NullStr, arg.lockedDarkBg))
    /\ (arg.lockedDarkBg.kind = "text" =>
          ret = generateTokens(arg.palette, arg.lockedPrimary, arg.lockedLightBg, NullStr))

\* every lock absent
NoLocks ==
  /\ arg.lockedPrimary = NullStr
  /\ arg.lockedLightBg = NullStr
  /\ arg.lockedDarkBg = NullStr

\* C12 as stated: on the empty palette with no locks every token is the
\* fallback constant of its mode, the dark primary being #409cff
C12_EmptyAllFallbacks ==
  (TokensDone /\ arg.palette = <<>> /\ NoLocks) =>
    /\ ret.light =
         [bg |-> LIGHT_BG_FALLBACK, surface |-> LIGHT_SURFACE_FALLBACK,
          border |-> LIGHT_BORDER_FALLBACK, heading |-> HexStr(26, 26, 26),
          text |-> HexStr(51, 51, 51), mutedText |-> HexStr(85, 85, 85),
          primary |-> LIGHT_PRIMARY_FALLBACK, onPrimary |-> HexWhite]
    /\ ret.dark =
         [bg |-> DARK_BG_FALLBACK, surface |-> DARK_SURFACE_FALLBACK,
          border |-> DARK_BORDER_FALLBACK, heading |-> HexStr(255, 255, 255),
          text |-> HexStr(240, 240, 240), mutedText |-> HexStr(208, 208, 208),
          primary |-> DARK_PRIMARY_FALLBACK, onPrimary |-> HexBlack]

\* C12 amended: on the empty palette with no locks every token is the fallback
\* constant of its mode, except the dark primary, which is the light primary
\* #0071e3 reused, with onPrimary #ffffff
C12_EmptyTokens ==
  (TokensDone /\ arg.palette = <<>> /\ NoLocks) =>
    /\ ret.light =
         [bg |-> LIGHT_BG_FALLBACK, surface |-> LIGHT_SURFACE_FALLBACK,
          border |-> LIGHT_BORDER_FALLBACK, heading |-> HexStr(26, 26, 26),
          text |-> HexStr(51, 51, 51), mutedText |-> HexStr(85, 85, 85),
          primary |-> LIGHT_PRIMARY_FALLBACK, onPrimary |-> HexWhite]
    /\ ret.dark =
         [bg |-> DARK_BG_FALLBACK, surface |-> DARK_SURFACE_FALLBACK,
          border |-> DARK_BORDER_FALLBACK, heading |-> HexStr(255, 255, 255),
          text |-> HexStr(240, 240, 240), mutedText |-> HexStr(208, 208, 208),
          primary |-> LIGHT_PRIMARY_FALLBACK, onPrimary |-> HexWhite]

\* C12 witness: the tokens of the empty palette without locks
C12_Witness ==
  /\ TokensDone
  /\ arg.palette = <<>>
  /\ NoLocks
  /\ ret.dark.primary = LIGHT_PRIMARY_FALLBACK
  /\ ret.dark.bg = DARK_BG_FALLBACK

\* ------------------------------------------------------------------------
\* SAVED PALETTES (localStorage)
\* ------------------------------------------------------------------------

MAX_SAVED == 5

\* a stored swatch without its isVibrant flag
StoredSwatchNoFlags(c) == Swatch(c.r, c.g, c.b, c.population, FALSE, FALSE)

\* { r, g, b, population, isVibrant: c.isVibrant || false }
StoredSwatch(c) == Swatch(c.r, c.g, c.b, c.population, c.isVibrant, FALSE)

StoredPalette(palette) == [i \in 1..Len(palette) |-> StoredSwatch(palette[i])]

\* newPalette, its id and timestamp taken from the clock
PaletteRecord(id, name, palette, tokens) ==
  [id |-> id, name |-> name, timestamp |-> id,
   palette |-> StoredPalette(palette), tokens |-> tokens]

\* savePalette without the splice
savePaletteKeepAll(palettes, id, name, palette, tokens) ==
  <<PaletteRecord(id, name, palette, tokens)>> \o palettes

\* the list savePalette writes back: unshift, then splice(MAX_SAVED)
savePalette(palettes, id, name, palette, tokens) ==
  LET Keep(list) ==
        IF Len(list) > MAX_SAVED THEN SubSeq(list, 1, MAX_SAVED) ELSE list
  IN  Keep(<<PaletteRecord(id, name, palette, tokens)>> \o palettes)

\* palettes.findIndex(p => p.id === id), from 1, 0 if there is none
FindIndexOfId(palettes, id) ==
  IF \E i \in 1..Len(palettes) : palettes[i].id = id
  THEN CHOOSE i \in 1..Len(palettes) :
         /\ palettes[i].id = id
         /\ \A j \in 1..(i - 1) : palettes[j].id # id
  ELSE 0

\* the list deletePalette leaves in the store
deletePalette(palettes, id) ==
  LET Splice(index) ==
        IF index = 0 THEN palettes
        ELSE SubSeq(palettes, 1, index - 1) \o SubSeq(palettes, index + 1, Len(palettes))
  IN  Splice(FindIndexOfId(palettes, id))

\* ------------------------------------------------------------------------
\* savePalette and deletePalette in any order
\* ------------------------------------------------------------------------

MaxSaves == 7

\* palettes handed to savePalette
StorePalettes ==
  { <<>>,
    <<Swatch(255, 0, 0, 3, TRUE, TRUE), Swatch(128, 128, 128, 20, FALSE, FALSE)>> }

InitStore ==
  /\ pc = "store"
  /\ arg = NoArg
  /\ ret = NoResult
  /\ UiInit
  /\ StoreInit

CallSavePalette ==
  /\ pc = "store"
  /\ now < MaxSaves
  /\ \E palette \in StorePalettes :
       savedPalettes' = savePalette(savedPalettes, now + 1, "Palette", palette, NoTokens)
  /\ now' = now + 1
  /\ UNCHANGED <<pc, arg, ret, extractedPalette, lockedPrimaryHex, lockedLightBgHex,
                 lockedDarkBgHex, currentTokens, bgSwatches, history, loadVars>>

CallDeletePalette ==
  /\ pc = "store"
  /\ \E id \in 1..MaxSaves : savedPalettes' = deletePalette(savedPalettes, id)
  /\ UNCHANGED <<pc, arg, ret, extractedPalette, lockedPrimaryHex, lockedLightBgHex,
                 lockedDarkBgHex, currentTokens, bgSwatches, history, now, loadVars>>

NextStore == CallSavePalette \/ CallDeletePalette

SpecStore == InitStore /\ [][NextStore]_vars

SavedIds(palettes) == {palettes[i].id : i \in 1..Len(palettes)}

\* the id of the record with the smallest timestamp
OldestId(palettes) ==
  CHOOSE id \in SavedIds(palettes) :
    \A i \in 1..Len(palettes) :
      palettes[i].id = id => \A j \in 1..Len(palettes) : palettes[i].timestamp <= palettes[j].timestamp

\* every record is newer than the ones after it
NewestFirst(palettes) ==
  \A i, j \in 1..Len(palettes) : i < j => palettes[i].timestamp > palettes[j].timestamp

\* C13: the store never holds more than 5 records, holds them newest first,
\* and a save on a full store drops the oldest record and nothing else
C13_StoreBounded ==
  /\ [](Len(savedPalettes) <= 5 /\ NewestFirst(savedPalettes))
  /\ [][(now' # now /\ Len(savedPalettes) = 5) =>
          SavedIds(savedPalettes') =
            (SavedIds(savedPalettes) \ {OldestId(savedPalettes)}) \cup {now'}]_vars

\* C13 witness: six saves, the first record evicted by the sixth
C13_Witness ==
  /\ pc = "store"
  /\ now = 6
  /\ Len(savedPalettes) = 5
  /\ savedPalettes[1].id = 6
  /\ savedPalettes[5].id = 2


\* ------------------------------------------------------------------------
\* generateTokens on palettes of mid tones and accents
\* ------------------------------------------------------------------------

\* swatches the accent palettes are built from
AccentSwatches ==
  { Swatch(240, 240, 240, 50, FALSE, FALSE),   \* light neutral
    Swatch(118, 118, 118, 20, FALSE, FALSE),   \* mid gray
    Swatch(102, 102, 102, 10, FALSE, FALSE),   \* darker mid gray
    Swatch(182, 171, 183, 20, FALSE, FALSE),   \* pale mauve
    Swatch(191, 156, 158, 10, FALSE, FALSE),   \* pale rose
    Swatch(200, 60, 60, 12, TRUE, TRUE),       \* soft red, from the Brand pass
    Swatch(140, 0, 0, 3, FALSE, FALSE),        \* deep red
    Swatch(255, 0, 0, 3, TRUE, TRUE),          \* brand red
    Swatch(255, 255, 255, 40, FALSE, FALSE),   \* white
    Swatch(5, 5, 5, 30, FALSE, FALSE) }        \* near black

AccentPalettesOfLen(n) ==
  {p \in [1..n -> AccentSwatches] : \A i, j \in 1..n : i # j => p[i] # p[j]}

AccentPalettes == UNION {AccentPalettesOfLen(n) : n \in 0..MaxPaletteLen}

InitAccents ==
  /\ pc = "call"
  /\ arg \in [fn : {"generateTokens"}, palette : AccentPalettes,
              lockedPrimary : {NullStr, HexStr(200, 60, 60)},
              lockedLightBg : {NullStr, HexStr(240, 240, 240)},
              lockedDarkBg : {NullStr, HexStr(102, 102, 102)}]
  /\ ret = NoResult
  /\ UiInit
  /\ StoreInit

SpecAccents == InitAccents /\ [][NextTokens]_vars

\* what loadPalette hands to generateTokens for a palette saved by savePalette
Reloaded(palette) == savePalette(<<>>, 1, "Palette", palette, NoTokens)[1].palette

\* C15: the tokens derived from a saved and reloaded palette are the tokens
\* derived from the palette itself, under the same locks
C15_SaveLoadRoundTrip ==
  TokensDone =>
    generateTokens(Reloaded(arg.palette), arg.lockedPrimary, arg.lockedLightBg,
                   arg.lockedDarkBg) = ret

\* C15 witness: a palette whose brand swatch loses isBrandColor in the store
\* and stays the light primary by its isVibrant flag, the deep red being more
\* saturated
C15_Witness ==
  /\ TokensDone
  /\ arg.palette = <<Swatch(200, 60, 60, 12, TRUE, TRUE),
                     Swatch(140, 0, 0, 3, FALSE, FALSE)>>
  /\ arg.lockedPrimary = NullStr
  /\ Reloaded(arg.palette) = <<Swatch(200, 60, 60, 12, TRUE, FALSE),
                               Swatch(140, 0, 0, 3, FALSE, FALSE)>>
  /\ ret.light.primary = HexStr(200, 60, 60)

\* C17: a bg that is not locked has contrast >= 4.5 against heading and text
\* and >= 3.0 against mutedText, in both modes
C17_BgContrast ==
  TokensDone =>
    /\ arg.lockedLightBg = NullStr =>
         /\ WcagAtLeast(ret.light.bg, ret.light.heading, 45, 10)
         /\ WcagAtLeast(ret.light.bg, ret.light.text, 45, 10)
         /\ WcagAtLeast(ret.light.bg, ret.light.mutedText, 30, 10)
    /\ arg.lockedDarkBg = NullStr =>
         /\ WcagAtLeast(ret.dark.bg, ret.dark.heading, 45, 10)
         /\ WcagAtLeast(ret.dark.bg, ret.dark.text, 45, 10)
         /\ WcagAtLeast(ret.dark.bg, ret.dark.mutedText, 30, 10)

\* C20: a primary that is not locked differs from the heading, the text and
\* the mutedText of its mode
C20_PrimaryNotText ==
  (TokensDone /\ arg.lockedPrimary = NullStr) =>
    \A m \in Modes :
      ret[m].primary \notin {ret[m].heading, ret[m].text, ret[m].mutedText}

\* the hex strings of the palette's swatches
PaletteHexes(palette) ==
  {rgbToHex(palette[i].r, palette[i].g, palette[i].b) : i \in 1..Len(palette)}

\* C21: mutedText has contrast >= 5.5 against surface in both modes, and is a
\* palette colour or one of the mode's two mutedText fallbacks
C21_MutedContrast ==
  TokensDone =>
    /\ \A m \in Modes : WcagAtLeast(ret[m].mutedText, ret[m].surface, 55, 10)
    /\ ret.light.mutedText \in
         PaletteHexes(arg.palette) \cup {HexStr(85, 85, 85), HexStr(68, 68, 68)}
    /\ ret.dark.mutedText \in
         PaletteHexes(arg.palette) \cup {HexStr(208, 208, 208), HexStr(184, 184, 184)}

\* C21 witness: #767676 is the light mutedText candidate (contrast >= 4 on the
\* surface, lighter than the text) but misses 5.5, so the fallback #555555 is
\* returned
C21_Witness ==
  /\ TokensDone
  /\ arg.palette = <<Swatch(5, 5, 5, 30, FALSE, FALSE),
                     Swatch(102, 102, 102, 10, FALSE, FALSE),
                     Swatch(118, 118, 118, 20, FALSE, FALSE)>>
  /\ NoLocks
  /\ ret.light.text = HexStr(102, 102, 102)
  /\ WcagAtLeast(HexStr(118, 118, 118), ret.light.surface, 4, 1)
  /\ ~WcagAtLeast(HexStr(118, 118, 118), ret.light.surface, 55, 10)
  /\ ret.light.mutedText = HexStr(85, 85, 85)

\* C22: the heading is at most as luminous as the text in light mode and at
\* least as luminous as the text in dark mode
C22_HeadingTextOrder ==
  TokensDone =>
    /\ LumOfHex(ret.light.heading) <= LumOfHex(ret.light.text)
    /\ LumOfHex(ret.dark.heading) >= LumOfHex(ret.dark.text)

\* C22 witness: the mid gray scores best as light heading although the dark
\* brown is less luminous; the swap makes the brown the heading
C22_Witness ==
  /\ TokensDone
  /\ arg.palette = <<Swatch(102, 102, 102, 10, FALSE, FALSE),
                     Swatch(40, 30, 30, 8, FALSE, FALSE)>>
  /\ NoLocks
  /\ First(lightHeadingCandidates(Analyze(arg.palette), hexToRgb(ret.light.surface))).hex
       = HexStr(102, 102, 102)
  /\ ret.light.heading = HexStr(40, 30, 30)
  /\ ret.light.text = HexStr(102, 102, 102)

\* C23: surface differs from bg in both modes
C23_SurfaceNotBg ==
  TokensDone => \A m \in Modes : ret[m].surface # ret[m].bg

\* a palette entry passes the strict filter of the dark primary
PassesDarkScored(c) ==
  /\ c.saturation >= 200000
  /\ c.hex \notin {ret.dark.heading, ret.dark.text, ret.dark.mutedText}
  /\ ContrastGE(c, hexToRgb(ret.dark.surface), 25, 10)

\* a palette entry passes a relaxed filter with contrast floor num/den
PassesDarkRelaxed(c, num, den) ==
  /\ c.saturation >= 150000
  /\ c.hex \notin {ret.dark.heading, ret.dark.text, ret.dark.mutedText}
  /\ ContrastGE(c, hexToRgb(ret.dark.surface), num, den)
  /\ c.luminance >= 200000
  /\ c.luminance <= 800000

\* the dark primary is one of the hexes, or the more vibrant palette variant
\* that replaced it
DarkPrimaryFrom(hexes) ==
  \/ ret.dark.primary \in hexes
  \/ /\ ret.dark.primary \in PaletteHexes(arg.palette)
     /\ LumOfHex(ret.dark.primary) > 200000
     /\ WcagAtLeast(ret.dark.primary, ret.dark.surface, 3, 1)

\* the dark primary comes from the first stage of the cascade that yields
\* something: scored, relaxed saturation, relaxed contrast, light primary, constant
DarkCascade(analyzed) ==
  LET Hexes(P(_)) == {analyzed[i].hex : i \in {j \in 1..Len(analyzed) : P(analyzed[j])}}
      Ordered(scored, relaxedSat, relaxedContrast, reuse) ==
        /\ scored # {} => DarkPrimaryFrom(scored)
        /\ (scored = {} /\ relaxedSat # {}) => DarkPrimaryFrom(relaxedSat)
        /\ (scored = {} /\ relaxedSat = {} /\ relaxedContrast # {})
             => DarkPrimaryFrom(relaxedContrast)
        /\ (scored = {} /\ relaxedContrast = {} /\ reuse)
             => DarkPrimaryFrom({ret.light.primary})
        /\ (scored = {} /\ relaxedContrast = {} /\ ~reuse)
             => ret.dark.primary = DARK_PRIMARY_FALLBACK
        /\ ret.dark.primary = DARK_PRIMARY_FALLBACK
             => (scored = {} /\ relaxedSat = {} /\ relaxedContrast = {} /\ ~reuse)
  IN  Ordered(Hexes(PassesDarkScored),
              Hexes(LAMBDA c : PassesDarkRelaxed(c, 25, 10)),
              Hexes(LAMBDA c : PassesDarkRelaxed(c, 2, 1)),
              WcagAtLeast(ret.light.primary, ret.dark.surface, 25, 10))

MaxOnPrimaryPaletteLen == 1

OnPrimaryLocks ==
  {NullStr, HexStr(200, 60, 60), UpperHexStr(255, 0, 0)}
    \cup {HexStr(v, v, v) : v \in 0..255}

InitOnPrimary ==
  /\ pc = "call"
  /\ arg \in [fn : {"generateTokens"},
              palette : UNION {AccentPalettesOfLen(n) : n \in 0..MaxOnPrimaryPaletteLen},
              lockedPrimary : OnPrimaryLocks,
              lockedLightBg : {NullStr},
              lockedDarkBg : {NullStr}]
  /\ ret = NoResult
  /\ UiInit
  /\ StoreInit

SpecOnPrimary == InitOnPrimary /\ [][NextTokens]_vars

\* the colour reaches contrast 4.5 with white or with black
ReadableWithWhiteOrBlack(c) ==
  ContrastGE(c, White, 45, 10) \/ ContrastGE(c, Black, 45, 10)

\* C25: primary and onPrimary have contrast >= 4.5 in both modes, also under a
\* primary lock, and the light primary selected before the onPrimary stage
\* already reaches 4.5 with white or black, so that stage never looks for
\* another primary
C25_OnPrimaryContrast ==
  TokensDone =>
    /\ \A m \in Modes : WcagAtLeast(ret[m].primary, ret[m].onPrimary, 45, 10)
    /\ ReadableWithWhiteOrBlack(
         LightSelection(arg.palette, arg.lockedPrimary, arg.lockedLightBg).primaryColor)

\* C25 witness: the locked gray #777777 misses 4.5 with white and gets black
C25_Witness ==
  /\ TokensDone
  /\ arg.lockedPrimary = HexStr(119, 119, 119)
  /\ arg.palette = <<>>
  /\ ~WcagAtLeast(HexStr(119, 119, 119), HexWhite, 45, 10)
  /\ \A m \in Modes : ret[m].primary = HexStr(119, 119, 119) /\ ret[m].onPrimary = HexBlack

MaxLockedPaletteLen == 2

\* no lock, a palette colour, a colour outside most palettes
LightBgLockValues == {NullStr, HexStr(240, 240, 240), HexStr(255, 255, 255)}
DarkBgLockValues == {NullStr, HexStr(102, 102, 102), HexStr(5, 5, 5)}

InitLocks ==
  /\ pc = "call"
  /\ arg \in [fn : {"generateTokens"},
              palette : UNION {AccentPalettesOfLen(n) : n \in 0..MaxLockedPaletteLen},
              lockedPrimary : {NullStr, HexStr(200, 60, 60)},
              lockedLightBg : LightBgLockValues,
              lockedDarkBg : DarkBgLockValues]
  /\ ret = NoResult
  /\ UiInit
  /\ StoreInit

SpecLocks == InitLocks /\ [][NextTokens]_vars

\* the dark tokens the light bg lock must not reach
DarkNeutrals(tokens) ==
  [k \in {"bg", "surface", "border", "heading", "text", "mutedText"} |-> tokens.dark[k]]

\* C30: with the palette and the other locks fixed, the light tokens are the
\* same for every dark bg lock, and the dark tokens bg, surface, border, heading,
\* text and mutedText are the same for every light bg lock
C30_ThemeNoninterference ==
  TokensDone =>
    /\ \A other \in DarkBgLockValues \cup {TextStr(1)} :
         generateTokens(arg.palette, arg.lockedPrimary, arg.lockedLightBg, other).light
           = ret.light
    /\ \A other \in LightBgLockValues \cup {TextStr(1)} :
         DarkNeutrals(generateTokens(arg.palette, arg.lockedPrimary, other, arg.lockedDarkBg))
           = DarkNeutrals(ret)

\* C30 witness: a dark bg lock that changes the dark tokens and a light bg lock
\* that changes the light tokens
C30_Witness ==
  /\ TokensDone
  /\ arg.palette = <<Swatch(240, 240, 240, 50, FALSE, FALSE)>>
  /\ arg.lockedLightBg = HexStr(255, 255, 255)
  /\ arg.lockedDarkBg = HexStr(102, 102, 102)
  /\ ret.light.bg = HexStr(255, 255, 255)
  /\ ret.dark.bg = HexStr(102, 102, 102)
  /\ generateTokens(arg.palette, arg.lockedPrimary, NullStr, arg.lockedDarkBg).light.bg
       = HexStr(240, 240, 240)
  /\ generateTokens(arg.palette, arg.lockedPrimary, arg.lockedLightBg, NullStr).dark.bg
       = DARK_BG_FALLBACK

\* ------------------------------------------------------------------------
\* Export of the tokens as CSS custom properties
\* ------------------------------------------------------------------------

\* the keys of lightTokens and of darkTokens in the order generateTokens
\* creates them, which is the order Object.entries lists them in
TokenKeys ==
  <<"bg", "surface", "border", "heading", "text", "mutedText", "primary", "onPrimary">>

\* tokenMap: the custom property of each token, after the prefix "--idtt-"
tokenMap ==
  [bg |-> "bg", surface |-> "surface", border |-> "border", text |-> "text",
   heading |-> "heading", mutedText |-> "muted-text", primary |-> "primary",
   onPrimary |-> "on-primary"]

\* the entries of a token object listed in the order of tokenMap
EntriesInMapOrder(obj) ==
  LET tokenOrder ==
        <<"bg", "surface", "border", "text", "heading", "mutedText", "primary", "onPrimary">>
      Present(key) == key \in DOMAIN obj
      keys == SelectSeq(tokenOrder, Present)
  IN  [i \in 1..Len(keys) |-> [key |-> keys[i], value |-> obj[keys[i]]]]

\* Object.entries(obj) of an object generateTokens built
Entries(obj) ==
  LET Present(key) == key \in DOMAIN obj
      keys == SelectSeq(TokenKeys, Present)
  IN  [i \in 1..Len(keys) |-> [key |-> keys[i], value |-> obj[keys[i]]]]

\* the lines "  --idtt-<property>: <value>;" of one block
Declarations(obj) ==
  LET Emitted(e) == Truthy(e.value) /\ e.key \in DOMAIN tokenMap
      Line(e) == [property |-> tokenMap[e.key], value |-> e.value]
      Lines(kept) == [i \in 1..Len(kept) |-> Line(kept[i])]
  IN  Lines(SelectSeq(Entries(obj), Emitted))

\* the block ":root { ... }" and the block "[data-theme="dark"] { ... }"
generateCSSVariables(tokens) ==
  [root |-> Declarations(tokens.light), dark |-> Declarations(tokens.dark)]

InitExport ==
  /\ pc = "call"
  /\ arg \in [fn : {"generateTokens"}, palette : AccentPalettes,
              lockedPrimary : {NullStr}, lockedLightBg : {NullStr},
              lockedDarkBg : {NullStr}]
  /\ ret = NoResult
  /\ UiInit
  /\ StoreInit

\* generateCSSVariables applied to the tokens generateTokens returned
CallGenerateCSSVariables ==
  /\ pc = "done"
  /\ arg.fn = "generateTokens"
  /\ arg' = [fn |-> "generateCSSVariables", tokens |-> ret]
  /\ ret' = generateCSSVariables(ret)
  /\ pc' = "exported"
  /\ UNCHANGED uiVars

NextExport == CallGenerateTokens \/ CallGenerateCSSVariables

SpecExport == InitExport /\ [][NextExport]_vars

Exported == pc = "exported" /\ arg.fn = "generateCSSVariables"

\* the custom properties of a block, in the order of their declarations
Properties(block) == [i \in 1..Len(block) |-> block[i].property]

MaxPixels == 5
MaxTargetColors == 4

QuantPixels == {Rgb(128, 128, 128), Rgb(255, 0, 0), Rgb(0, 0, 255)}

PixelLists == UNION {[1..n -> QuantPixels] : n \in 0..MaxPixels}

InitQuant ==
  /\ pc = "call"
  /\ arg \in [fn : {"medianCut"}, pixels : PixelLists,
              targetColors : 1..MaxTargetColors]
  /\ ret = NoResult
  /\ UiInit
  /\ StoreInit

CallMedianCut ==
  /\ pc = "call"
  /\ arg.fn = "medianCut"
  /\ ret' = medianCut(arg.pixels, arg.targetColors)
  /\ pc' = "done"
  /\ UNCHANGED <<arg, uiVars>>

NextQuant == CallMedianCut

SpecQuant == InitQuant /\ [][NextQuant]_vars

QuantDone == pc = "done" /\ arg.fn = "medianCut"

RECURSIVE SumPopulation(_)
SumPopulation(colors) ==
  IF colors = <<>> THEN 0 ELSE Head(colors).population + SumPopulation(Tail(colors))

\* C6: for a non-empty pixel list and K >= 1 medianCut returns between 1 and K
\* swatches whose populations add up to the number of pixels
C6_QuantizerBounds ==
  (QuantDone /\ Len(arg.pixels) > 0) =>
    /\ Len(ret) >= 1
    /\ Len(ret) <= arg.targetColors
    /\ SumPopulation(ret) = Len(arg.pixels)

\* C6 witness: five pixels cut into three swatches
C6_Witness ==
  /\ QuantDone
  /\ Len(arg.pixels) = 5
  /\ arg.targetColors = 3
  /\ Len(ret) = 3
  /\ SumPopulation(ret) = 5

\* every bucket of the list holds a pixel
AllNonEmpty(buckets) == \A i \in 1..Len(buckets) : Len(buckets[i]) >= 1

\* C28: for a non-empty pixel list and K >= 1 the cut loop ends with non-empty
\* buckets only, so no split ever produced an empty half, and medianCut returns
\* exactly min(K, n) swatches, also when all pixels have one colour
C28_QuantizerExact ==
  (QuantDone /\ Len(arg.pixels) > 0) =>
    /\ Len(ret) = Min2(arg.targetColors, Len(arg.pixels))
    /\ AllNonEmpty(CutLoop(<<arg.pixels>>, arg.targetColors))
    /\ Len(arg.pixels) >= 2 => AllNonEmpty(SplitBucket(arg.pixels))

\* C28 witness: five pixels of one colour cut into four swatches of that colour
C28_Witness ==
  /\ QuantDone
  /\ arg.pixels = [i \in 1..5 |-> Rgb(128, 128, 128)]
  /\ arg.targetColors = 4
  /\ Len(ret) = 4
  /\ \A i \in 1..4 : ret[i].r = 128 /\ ret[i].g = 128 /\ ret[i].b = 128

\* ------------------------------------------------------------------------
\* removeDuplicates as a function of the swatch list and the threshold
\* ------------------------------------------------------------------------

MaxSwatches == 3

DedupSwatches ==
  { Swatch(100, 100, 100, 1, FALSE, FALSE),
    Swatch(111, 111, 111, 1, FALSE, FALSE),
    Swatch(105, 100, 100, 1, FALSE, FALSE),
    Swatch(130, 100, 100, 1, FALSE, FALSE),
    Swatch(118, 100, 100, 1, FALSE, FALSE),
    Swatch(200, 50, 50, 2, TRUE, FALSE) }

\* the thresholds processImage passes
DedupThresholds == {30, 40, 45}

SwatchLists == UNION {[1..n -> DedupSwatches] : n \in 0..MaxSwatches}

InitDedup ==
  /\ pc = "call"
  /\ arg \in [fn : {"removeDuplicates"}, colors : SwatchLists,
              threshold : DedupThresholds]
  /\ ret = NoResult
  /\ UiInit
  /\ StoreInit

CallRemoveDuplicates ==
  /\ pc = "call"
  /\ arg.fn = "removeDuplicates"
  /\ ret' = removeDuplicates(arg.colors, arg.threshold)
  /\ pc' = "done"
  /\ UNCHANGED <<arg, uiVars>>

NextDedup == CallRemoveDuplicates

SpecDedup == InitDedup /\ [][NextDedup]_vars

DedupDone == pc = "done" /\ arg.fn = "removeDuplicates"

\* C7: removeDuplicates applied to its own output, with the same threshold,
\* returns that output unchanged
C7_DedupIdempotent ==
  DedupDone => removeDuplicates(ret, arg.threshold) = ret

\* the colour of a swatch, without its population
ColourOf(c) == [c EXCEPT !.population = 0]

\* after is before with color appended, or with color merged into one entry
\* within the threshold: that entry has the summed population and the colour
\* of the more saturated of the two, its own on a tie
MergedBySaturation(before, after, color, threshold) ==
  IF Len(after) = Len(before) + 1
  THEN after = Append(before, color)
  ELSE /\ Len(after) = Len(before)
       /\ \E ci \in 1..Len(before) :
            /\ DistanceLT(color, before[ci], threshold)
            /\ \A j \in 1..Len(before) : j # ci => after[j] = before[j]
            /\ after[ci].population = before[ci].population + color.population
            /\ ColourOf(after[ci]) =
                 IF Sat(color) > Sat(before[ci]) THEN ColourOf(color)
                 ELSE ColourOf(before[ci])

\* C18: removeDuplicates conserves the total population, and each swatch it
\* merges leaves the more saturated colour of the swatch and its merge target,
\* the target's on a tie
C18_DedupConserves ==
  DedupDone =>
    /\ SumPopulation(ret) = SumPopulation(arg.colors)
    /\ \A i \in 1..Len(arg.colors) :
         MergedBySaturation(removeDuplicates(SubSeq(arg.colors, 1, i - 1), arg.threshold),
                            removeDuplicates(SubSeq(arg.colors, 1, i), arg.threshold),
                            arg.colors[i], arg.threshold)

\* C18 witness: two grays of equal saturation merged into the first, then a
\* more saturated swatch that takes the merged entry over
C18_Witness ==
  /\ DedupDone
  /\ arg.colors = <<Swatch(100, 100, 100, 1, FALSE, FALSE),
                    Swatch(111, 111, 111, 1, FALSE, FALSE),
                    Swatch(105, 100, 100, 1, FALSE, FALSE)>>
  /\ removeDuplicates(SubSeq(arg.colors, 1, 2), arg.threshold) =
       <<Swatch(100, 100, 100, 2, FALSE, FALSE)>>
  /\ ret = <<Swatch(105, 100, 100, 3, FALSE, FALSE)>>

\* the step from before to after appended the swatch when no entry of before
\* is within the threshold, and otherwise merged it into an entry that is
\* within the threshold and no farther from the swatch than any other entry
MergedIntoNearest(before, after, color, threshold) ==
  IF \E k \in 1..Len(before) : DistanceLT(color, before[k], threshold)
  THEN \E ci \in 1..Len(before) :
         /\ DistanceLT(color, before[ci], threshold)
         /\ \A j \in 1..Len(before) :
              colorDistance(color, before[ci]) <= colorDistance(color, before[j])
         /\ Len(after) = Len(before)
         /\ after[ci].population = before[ci].population + color.population
         /\ \A j \in 1..Len(before) : j # ci => after[j] = before[j]
  ELSE after = Append(before, color)

\* C29: each swatch removeDuplicates classifies as a duplicate is merged into
\* the nearest swatch of the current output, which lies within the threshold;
\* every other swatch is appended
C29_MergeTargetNearest ==
  DedupDone =>
    \A i \in 1..Len(arg.colors) :
      MergedIntoNearest(removeDuplicates(SubSeq(arg.colors, 1, i - 1), arg.threshold),
                        removeDuplicates(SubSeq(arg.colors, 1, i), arg.threshold),
                        arg.colors[i], arg.threshold)

\* C29 witness: the third swatch is within the threshold of both entries of
\* the output and is merged into the second, the nearer one
C29_Witness ==
  /\ DedupDone
  /\ arg.threshold = 30
  /\ arg.colors = <<Swatch(100, 100, 100, 1, FALSE, FALSE),
                    Swatch(130, 100, 100, 1, FALSE, FALSE),
                    Swatch(118, 100, 100, 1, FALSE, FALSE)>>
  /\ DistanceLT(arg.colors[3], arg.colors[1], 30)
  /\ DistanceLT(arg.colors[3], arg.colors[2], 30)
  /\ ret = <<Swatch(100, 100, 100, 1, FALSE, FALSE),
             Swatch(130, 100, 100, 2, FALSE, FALSE)>>

\* ------------------------------------------------------------------------
\* THE PAGE: image upload and lock clicks
\* ------------------------------------------------------------------------

\* the last two events
Remember(event) ==
  IF Len(history) < 2 THEN Append(history, event) ELSE <<history[2], event>>

\* an event with the state it was fired in
Event(op, hex) ==
  [op |-> op, hex |-> hex, lockedPrimaryBefore |-> lockedPrimaryHex,
   lockedLightBgBefore |-> lockedLightBgHex, lockedDarkBgBefore |-> lockedDarkBgHex,
   paletteBefore |-> extractedPalette, tokensBefore |-> currentTokens,
   pixels |-> <<>>]

\* computeAndRender() on the new values of the palette and the locks
computeAndRender(palette, lockedPrimary, lockedLightBg, lockedDarkBg) ==
  LET Render(result, analyzedPalette) ==
        /\ currentTokens' = result
        /\ bgSwatches' =
             [light |-> renderPreview(filterLightBgCandidates(analyzedPalette, result.light)),
              dark |-> renderPreview(filterDarkBgCandidates(analyzedPalette, result.dark))]
  IN  IF Len(palette) = 0
      THEN currentTokens' = currentTokens /\ bgSwatches' = NoSwatches
      ELSE Render(generateTokens(palette, lockedPrimary, lockedLightBg, lockedDarkBg),
                  Analyze(palette))

\* img.onload of processImage, on the pixels extractPixels returns; the first
\* split of medianCut sorts the array originalPixels refers to
ImgOnload(pixels) ==
  LET Show(palette) ==
        /\ extractedPalette' = palette
        /\ computeAndRender(palette, NullStr, NullStr, NullStr)
  IN  /\ Show(AssemblePalette(pixels))
      /\ lockedPrimaryHex' = NullStr
      /\ lockedLightBgHex' = NullStr
      /\ lockedDarkBgHex' = NullStr
      /\ thumbnail' = pixels
      /\ originalPixels' = PixelsAfterMedianCut(pixels, 20)
      /\ history' = Remember([Event("processImage", NullStr) EXCEPT !.pixels = pixels])
      /\ UNCHANGED storeVars

\* a click handler that always locks
AlwaysLock(locked, hex) == hex

\* the click handler's choice: unlock on the locked hex, lock any other
ToggleLock(locked, hex) == IF locked = hex THEN NullStr ELSE hex

\* click on the i-th .idtt-palette-swatch
ClickPaletteSwatch(i) ==
  LET Click(hex) ==
        /\ lockedPrimaryHex' = ToggleLock(lockedPrimaryHex, hex)
        /\ computeAndRender(extractedPalette, ToggleLock(lockedPrimaryHex, hex),
                            lockedLightBgHex, lockedDarkBgHex)
        /\ history' = Remember(Event("clickPalette", hex))
  IN  /\ pc = "ui"
      /\ i \in 1..Len(extractedPalette)
      /\ Click(rgbToHex(extractedPalette[i].r, extractedPalette[i].g, extractedPalette[i].b))
      /\ UNCHANGED <<pc, arg, ret, extractedPalette, lockedLightBgHex, lockedDarkBgHex, storeVars,
                     loadVars>>

\* click on the j-th .idtt-bg-swatch of the light preview
ClickLightBgSwatch(j) ==
  LET Click(hex) ==
        /\ lockedLightBgHex' = ToggleLock(lockedLightBgHex, hex)
        /\ computeAndRender(extractedPalette, lockedPrimaryHex,
                            ToggleLock(lockedLightBgHex, hex), lockedDarkBgHex)
        /\ history' = Remember(Event("clickLightBg", hex))
  IN  /\ pc = "ui"
      /\ j \in 1..Len(bgSwatches.light)
      /\ Click(bgSwatches.light[j])
      /\ UNCHANGED <<pc, arg, ret, extractedPalette, lockedPrimaryHex, lockedDarkBgHex, storeVars,
                     loadVars>>

\* click on the j-th .idtt-bg-swatch of the dark preview
ClickDarkBgSwatch(j) ==
  LET Click(hex) ==
        /\ lockedDarkBgHex' = ToggleLock(lockedDarkBgHex, hex)
        /\ computeAndRender(extractedPalette, lockedPrimaryHex, lockedLightBgHex,
                            ToggleLock(lockedDarkBgHex, hex))
        /\ history' = Remember(Event("clickDarkBg", hex))
  IN  /\ pc = "ui"
      /\ j \in 1..Len(bgSwatches.dark)
      /\ Click(bgSwatches.dark[j])
      /\ UNCHANGED <<pc, arg, ret, extractedPalette, lockedPrimaryHex, lockedLightBgHex, storeVars,
                     loadVars>>

\* a load that leaves the locks as they are
loadPaletteKeepLocks(saved) ==
  /\ extractedPalette' = saved.palette
  /\ computeAndRender(saved.palette, lockedPrimaryHex, lockedLightBgHex, lockedDarkBgHex)
  /\ history' = Remember(Event("loadPalette", NullStr))
  /\ UNCHANGED <<lockedPrimaryHex, lockedLightBgHex, lockedDarkBgHex, storeVars,
                 thumbnail, originalPixels>>

\* loadPalette(saved)
loadPalette(saved) ==
  /\ extractedPalette' = saved.palette
  /\ lockedPrimaryHex' = NullStr
  /\ lockedLightBgHex' = NullStr
  /\ lockedDarkBgHex' = NullStr
  /\ computeAndRender(saved.palette, NullStr, NullStr, NullStr)
  /\ history' = Remember(Event("loadPalette", NullStr))
  /\ UNCHANGED <<storeVars, thumbnail, originalPixels>>

\* click on the i-th .idtt-saved-item, outside its delete button
ClickSavedItem(i) ==
  /\ pc = "ui"
  /\ i \in 1..Len(savedPalettes)
  /\ loadPalette(savedPalettes[i])
  /\ UNCHANGED <<pc, arg, ret, loads>>

\* click on the i-th .idtt-saved-item-delete, confirmed
ClickDeleteSaved(i) ==
  /\ pc = "ui"
  /\ i \in 1..Len(savedPalettes)
  /\ savedPalettes' = deletePalette(savedPalettes, savedPalettes[i].id)
  /\ history' = Remember(Event("deletePalette", NullStr))
  /\ UNCHANGED <<pc, arg, ret, extractedPalette, lockedPrimaryHex, lockedLightBgHex,
                 lockedDarkBgHex, currentTokens, bgSwatches, now, loadVars>>

\* a run of n equal pixels
Run(n, pixel) == [i \in 1..n |-> pixel]

\* ------------------------------------------------------------------------
\* One upload of a gray image with a few red pixels
\* ------------------------------------------------------------------------

MaxRedPixels == 7

\* lengths of the gray runs before and after the red pixels
GrayRunsBefore == {0, 1, 400}
GrayRunsAfter == {0, 1, 2, 120, 350, 800}

Gray == Rgb(128, 128, 128)
Red == Rgb(255, 0, 0)

ImagePixels(image) ==
  Run(image.grayBefore, Gray) \o Run(image.red, Red) \o Run(image.grayAfter, Gray)

InitPipeline ==
  /\ pc = "call"
  /\ arg \in [fn : {"processImage"}, grayBefore : GrayRunsBefore,
              red : 0..MaxRedPixels, grayAfter : GrayRunsAfter]
  /\ ret = NoResult
  /\ UiInit
  /\ StoreInit

ProcessGrayImage ==
  /\ pc = "call"
  /\ arg.fn = "processImage"
  /\ ImgOnload(ImagePixels(arg))
  /\ pc' = "done"
  /\ UNCHANGED <<arg, ret, loads>>

NextPipeline == ProcessGrayImage

SpecPipeline == InitPipeline /\ [][NextPipeline]_vars

PipelineDone == pc = "done" /\ arg.fn = "processImage"

GrayCount == arg.grayBefore + arg.grayAfter

\* n copies of the gray pixel, n >= 1
GrayOnly == PipelineDone /\ arg.red = 0 /\ GrayCount >= 1

\* at least one red pixel, and red pixels are less than 1% of the image
FewRed == PipelineDone /\ arg.red >= 1 /\ 100 * arg.red < GrayCount + arg.red

\* C8 as stated: for n copies of the gray pixel every token is its fallback
\* constant, heading, text and mutedText being their first fallback hexes
C8_GrayAllFallbacks ==
  GrayOnly =>
    /\ currentTokens.light.bg = LIGHT_BG_FALLBACK
    /\ currentTokens.light.surface = LIGHT_SURFACE_FALLBACK
    /\ currentTokens.light.border = LIGHT_BORDER_FALLBACK
    /\ currentTokens.light.primary = LIGHT_PRIMARY_FALLBACK
    /\ currentTokens.light.heading = HexStr(26, 26, 26)
    /\ currentTokens.light.text = HexStr(51, 51, 51)
    /\ currentTokens.light.mutedText = HexStr(85, 85, 85)
    /\ currentTokens.dark.bg = DARK_BG_FALLBACK
    /\ currentTokens.dark.surface = DARK_SURFACE_FALLBACK
    /\ currentTokens.dark.border = DARK_BORDER_FALLBACK
    /\ currentTokens.dark.primary = DARK_PRIMARY_FALLBACK
    /\ currentTokens.dark.heading = HexStr(255, 255, 255)
    /\ currentTokens.dark.text = HexStr(240, 240, 240)
    /\ currentTokens.dark.mutedText = HexStr(208, 208, 208)

\* C8 amended: for n copies of the gray pixel the palette is the one gray
\* swatch with population n; the light tokens are the fallback constants; the
\* dark tokens are the fallback bg, surface and mutedText, the gray swatch as
\* border, the forced pair #ffffff / #c0c0c0 as heading and text, and the
\* light primary #0071e3 reused as primary
C8_GrayTokens ==
  GrayOnly =>
    /\ extractedPalette = <<Swatch(128, 128, 128, GrayCount, FALSE, FALSE)>>
    /\ currentTokens.light =
         [bg |-> LIGHT_BG_FALLBACK, surface |-> LIGHT_SURFACE_FALLBACK,
          border |-> LIGHT_BORDER_FALLBACK, heading |-> HexStr(26, 26, 26),
          text |-> HexStr(51, 51, 51), mutedText |-> HexStr(85, 85, 85),
          primary |-> LIGHT_PRIMARY_FALLBACK, onPrimary |-> HexWhite]
    /\ currentTokens.dark =
         [bg |-> DARK_BG_FALLBACK, surface |-> DARK_SURFACE_FALLBACK,
          border |-> HexStr(128, 128, 128), heading |-> HexStr(255, 255, 255),
          text |-> HexStr(192, 192, 192), mutedText |-> HexStr(208, 208, 208),
          primary |-> LIGHT_PRIMARY_FALLBACK, onPrimary |-> HexWhite]

\* C8 witness: 400 gray pixels processed, the dark border is the gray swatch
C8_Witness ==
  /\ GrayOnly
  /\ GrayCount = 400
  /\ currentTokens.dark.border = HexStr(128, 128, 128)
  /\ currentTokens.dark.primary = LIGHT_PRIMARY_FALLBACK

\* a hex colour in the red hue ranges [0, 30) or [330, 360) with saturation > 0.40
RedHued(hex) ==
  LET Is(hsl) == (hsl.h < 30000 \/ hsl.h >= 330000) /\ hsl.s > 400000
  IN  ValidHex(hex) /\ Is(Hsl(hexToRgb(hex)))

\* a red swatch of the palette that the Brand pass added
BrandRedAt(i) ==
  /\ extractedPalette[i].isBrandColor
  /\ RedHued(rgbToHex(extractedPalette[i].r, extractedPalette[i].g, extractedPalette[i].b))

\* C9 as stated: with red pixels below 1% of a gray image, whatever their
\* number, the Brand pass has recovered a red swatch and the light primary is
\* red-hued with saturation > 0.40, not the fallback
C9_BrandRecoversRed ==
  FewRed =>
    /\ \E i \in 1..Len(extractedPalette) : BrandRedAt(i)
    /\ RedHued(currentTokens.light.primary)
    /\ currentTokens.light.primary # LIGHT_PRIMARY_FALLBACK

\* C9 amended: with red pixels below 1% of a gray image the palette holds the
\* pure red swatch, flagged vibrant, with the red pixels as population; it
\* comes from the Brand pass when there are fewer than 5 red pixels and from
\* the Vibrant pass otherwise; the light primary is #ff0000
C9_AccentRecoversRed ==
  FewRed =>
    /\ \E i \in 1..Len(extractedPalette) :
         extractedPalette[i] = Swatch(255, 0, 0, arg.red, TRUE, arg.red < 5)
    /\ currentTokens.light.primary = HexStr(255, 0, 0)
    /\ RedHued(currentTokens.light.primary)

\* C9 witness: one red pixel among 401 recovered by the Brand pass and six
\* among 1206 recovered by the Vibrant pass are both covered; this is the first
C9_Witness ==
  /\ FewRed
  /\ arg.red = 1
  /\ GrayCount = 400
  /\ \E i \in 1..Len(extractedPalette) :
       extractedPalette[i] = Swatch(255, 0, 0, 1, TRUE, TRUE)
  /\ currentTokens.light.primary = HexStr(255, 0, 0)

\* ------------------------------------------------------------------------
\* The running page: uploads and clicks in any order
\* ------------------------------------------------------------------------

\* a light neutral, a dark neutral, an accent and a second light neutral
Light == Rgb(240, 240, 240)
Dark == Rgb(5, 5, 5)
Paper == Rgb(250, 250, 250)
Navy == Rgb(20, 20, 60)

\* the pixel lists of the images a user uploads
UiImages ==
  { Run(4, Light) \o Run(3, Dark) \o Run(2, Red),
    Run(3, Paper) \o Run(3, Light) \o Run(2, Navy) \o Run(2, Dark),
    Run(5, Gray) }

\* the record savePalette writes for an image processed with no locks
RecordOf(id, pixels) ==
  LET Saved(palette) ==
        PaletteRecord(id, "Palette", palette,
                      generateTokens(palette, NullStr, NullStr, NullStr))
  IN  Saved(AssemblePalette(pixels))

\* two palettes saved in an earlier session, the newer one first
EarlierStore ==
  <<RecordOf(2, Run(4, Light) \o Run(3, Dark) \o Run(2, Red)),
    RecordOf(1, Run(400, Gray) \o Run(2, Red))>>

InitUI ==
  /\ pc = "ui"
  /\ arg = NoArg
  /\ ret = NoResult
  /\ UiInit
  /\ savedPalettes = EarlierStore
  /\ now = 2

\* the user picks a file and its img.onload runs
ProcessImage ==
  /\ pc = "ui"
  /\ \E pixels \in UiImages : ImgOnload(pixels)
  /\ UNCHANGED <<pc, arg, ret, loads>>

NextUI ==
  \/ ProcessImage
  \/ \E i \in 1..16 : ClickPaletteSwatch(i)
  \/ \E j \in 1..6 : ClickLightBgSwatch(j)
  \/ \E j \in 1..6 : ClickDarkBgSwatch(j)
  \/ \E i \in 1..MAX_SAVED : ClickSavedItem(i)

SpecUI == InitUI /\ [][NextUI]_vars

\* the last two events are clicks on the same palette swatch, the first one
\* fired with no primary lock
ClickedTwice ==
  /\ pc = "ui"
  /\ Len(history) = 2
  /\ history[1].op = "clickPalette"
  /\ history[2].op = "clickPalette"
  /\ history[1].hex = history[2].hex
  /\ history[1].lockedPrimaryBefore = NullStr

\* C10: with no primary lock, a click on a palette swatch locks its hex, a
\* second click on it unlocks, and the tokens are then those shown before the
\* first click
C10_ClickTwiceUnlocks ==
  ClickedTwice =>
    /\ history[2].lockedPrimaryBefore = history[1].hex
    /\ lockedPrimaryHex = NullStr
    /\ currentTokens = history[1].tokensBefore

\* C10 witness: the second click came after a lock that had changed the primary
C10_Witness ==
  /\ ClickedTwice
  /\ history[2].tokensBefore.light.primary = history[1].hex
  /\ history[2].tokensBefore.light.primary # currentTokens.light.primary
  /\ lockedPrimaryHex = NullStr

\* the last UI event
LastEvent == history[Len(history)]

\* C11: a click on a swatch changes the lock it toggles and no other, and all
\* three locks are unset right after an image has been processed or a saved
\* palette has been loaded
C11_LocksSessionScoped ==
  (pc = "ui" /\ history # <<>>) =>
    /\ LastEvent.op \in {"processImage", "loadPalette"} =>
         /\ lockedPrimaryHex = NullStr
         /\ lockedLightBgHex = NullStr
         /\ lockedDarkBgHex = NullStr
    /\ LastEvent.op \in {"clickLightBg", "clickDarkBg"} =>
         lockedPrimaryHex = LastEvent.lockedPrimaryBefore
    /\ LastEvent.op \in {"clickPalette", "clickDarkBg"} =>
         lockedLightBgHex = LastEvent.lockedLightBgBefore
    /\ LastEvent.op \in {"clickPalette", "clickLightBg"} =>
         lockedDarkBgHex = LastEvent.lockedDarkBgBefore

\* C11 witness: a saved palette loaded while the primary and the light bg were
\* locked
C11_Witness ==
  /\ pc = "ui"
  /\ history # <<>>
  /\ LastEvent.op = "loadPalette"
  /\ LastEvent.lockedPrimaryBefore # NullStr
  /\ LastEvent.lockedLightBgBefore # NullStr
  /\ lockedPrimaryHex = NullStr
  /\ lockedLightBgHex = NullStr

\* ------------------------------------------------------------------------
\* Uploads, loads and deletions of saved palettes
\* ------------------------------------------------------------------------

\* the 27 colours with channels 0, 128 and 255, one pixel each
Rainbow ==
  LET Level(k) == IF k = 0 THEN 0 ELSE IF k = 1 THEN 128 ELSE 255
  IN  [i \in 1..27 |->
         Rgb(Level((i - 1) \div 9), Level(((i - 1) \div 3) % 3), Level((i - 1) % 3))]

GalleryImages ==
  { Rainbow,
    Run(400, Gray) \o Run(2, Red),
    Run(4, Light) \o Run(3, Dark) \o Run(2, Red),
    <<>> }

\* saved in an earlier session, the newer one first
GalleryStore ==
  <<RecordOf(2, Rainbow), RecordOf(1, Run(400, Gray) \o Run(2, Red))>>

InitGallery ==
  /\ pc = "ui"
  /\ arg = NoArg
  /\ ret = NoResult
  /\ UiInit
  /\ savedPalettes = GalleryStore
  /\ now = 2

ProcessGalleryImage ==
  /\ pc = "ui"
  /\ \E pixels \in GalleryImages : ImgOnload(pixels)
  /\ UNCHANGED <<pc, arg, ret, loads>>

NextGallery ==
  \/ ProcessGalleryImage
  \/ \E i \in 1..MAX_SAVED : ClickSavedItem(i)
  \/ \E i \in 1..MAX_SAVED : ClickDeleteSaved(i)

SpecGallery == InitGallery /\ [][NextGallery]_vars

\* the palette of an image before it is ranked and cut
UnrankedPalette(pixels) == PaletteAfterBrand(pixels, PixelsAfterMedianCut(pixels, 20))

\* ten times population x classBoost
BoostedPopulation10(c) ==
  c.population * (IF c.isBrandColor THEN 25 ELSE IF c.isVibrant THEN 20 ELSE 10)

\* p holds the min(16, Len(all)) best ranked entries of all, best first
RankedTop16(p, all) ==
  /\ Len(p) = Min2(16, Len(all))
  /\ \A i, j \in 1..Len(p) : i < j => BoostedPopulation10(p[i]) >= BoostedPopulation10(p[j])
  /\ \A i \in 1..Len(p) : \E k \in 1..Len(all) : all[k] = p[i]
  /\ \A k \in 1..Len(all) :
       (\A i \in 1..Len(p) : p[i] # all[k]) =>
         \A i \in 1..Len(p) : BoostedPopulation10(all[k]) <= BoostedPopulation10(p[i])

\* C14: the current palette never has more than 16 swatches, and right after an
\* image has been processed it is the first 16 entries of the ranking of the
\* assembled swatches by population x classBoost, in non-increasing order
C14_PaletteRanked ==
  pc = "ui" =>
    /\ Len(extractedPalette) <= 16
    /\ (history # <<>> /\ LastEvent.op = "processImage") =>
         RankedTop16(extractedPalette, UnrankedPalette(LastEvent.pixels))

\* C14 witness: an image whose assembled swatches are more than 16
C14_Witness ==
  /\ pc = "ui"
  /\ history # <<>>
  /\ LastEvent.op = "processImage"
  /\ Len(UnrankedPalette(LastEvent.pixels)) > 16
  /\ Len(extractedPalette) = 16
  /\ \E i \in 1..16 : extractedPalette[i].isBrandColor


\* ------------------------------------------------------------------------
\* extractVibrantColors as a function of the pixels and the existing palette
\* ------------------------------------------------------------------------

MaxRunLen == 5

\* red, a red of 86% of its saturation, a pale red, blue, gray
VibrantPixels ==
  {Rgb(255, 0, 0), Rgb(200, 15, 15), Rgb(180, 120, 120), Rgb(0, 0, 255), Rgb(128, 128, 128)}

\* none, one short of a hue bucket that counts, or more
RunLengths == {0} \cup (4..MaxRunLen)

VibrantImages ==
  {Run(n1, p1) \o Run(n2, p2) : <<n1, p1, n2, p2>> \in
     RunLengths \X VibrantPixels \X RunLengths \X VibrantPixels}

ExistingSwatches ==
  { Swatch(200, 15, 15, 9, FALSE, FALSE),    \* 86% of the saturation of red
    Swatch(220, 0, 0, 9, FALSE, FALSE),      \* as saturated as red
    Swatch(250, 5, 5, 9, FALSE, FALSE),      \* next to red
    Swatch(0, 0, 200, 9, FALSE, FALSE) }     \* a blue

ExistingPalettes == UNION {[1..n -> ExistingSwatches] : n \in 0..2}

InitVibrant ==
  /\ pc = "call"
  /\ arg \in [fn : {"extractVibrantColors"}, pixels : VibrantImages,
              existingPalette : ExistingPalettes]
  /\ ret = NoResult
  /\ UiInit
  /\ StoreInit

CallExtractVibrantColors ==
  /\ pc = "call"
  /\ arg.fn = "extractVibrantColors"
  /\ ret' = extractVibrantColors(arg.pixels, arg.existingPalette)
  /\ pc' = "done"
  /\ UNCHANGED <<arg, uiVars>>

NextVibrant == CallExtractVibrantColors

SpecVibrant == InitVibrant /\ [][NextVibrant]_vars

VibrantDone == pc = "done" /\ arg.fn = "extractVibrantColors"

\* some existing entry is at distance < 35 of avg, or within 25 degrees of hue
\* of it with a saturation of at least num/den of the saturation of avg
NearOrAsSaturated(avg, existingPalette, num, den) ==
  \E i \in 1..Len(existingPalette) :
    \/ DistanceLT(avg, existingPalette[i], 35)
    \/ /\ isSimilarHue(Hsl(existingPalette[i]), Hsl(avg), 25)
       /\ Hsl(existingPalette[i]).s * den >= Hsl(avg).s * num

\* the candidate of every hue bucket of at least 5 pixels is returned exactly
\* when no existing entry is near it or as saturated in the sense of num/den,
\* and its saturation is above 0.35
VibrantKeptBy(num, den) ==
  \A k \in 1..18 :
    LET Decided(avg) ==
          (\E i \in 1..Len(ret) : ret[i] = avg) <=>
            (~NearOrAsSaturated(avg, arg.existingPalette, num, den) /\ Sat(avg) > 350000)
        Slice(bucket) == Len(bucket) >= 5 => Decided(VibrantAverage(bucket))
    IN  Slice(SelectSeq(SelectSeq(arg.pixels, VibrantAdmits),
                        LAMBDA p : HueBucketIndex(p) = k - 1))

\* C19 as stated: a Vibrant candidate is discarded exactly when an existing
\* entry is at distance < 35, or is within 25 degrees of hue and has at least
\* 85% of the candidate's saturation; otherwise it is kept iff its saturation
\* is above 0.35
C19_VibrantRule85 == VibrantDone => VibrantKeptBy(85, 100)

\* C19 amended: as stated, with "the candidate's saturation is at most 1.15
\* times the entry's" (the entry has at least 100/115, about 87%, of the
\* candidate's saturation) in place of 85%
C19_VibrantRule115 == VibrantDone => VibrantKeptBy(100, 115)

\* C19 witness: red is kept although the palette holds a red of the same hue
\* with 86% of its saturation
C19_Witness ==
  /\ VibrantDone
  /\ arg.pixels = Run(5, Rgb(255, 0, 0))
  /\ arg.existingPalette = <<Swatch(200, 15, 15, 9, FALSE, FALSE)>>
  /\ Hsl(Rgb(200, 15, 15)).s * 100 >= Hsl(Rgb(255, 0, 0)).s * 85
  /\ ret = <<Swatch(255, 0, 0, 5, TRUE, FALSE)>>

\* ------------------------------------------------------------------------
\* Uploads and clicks on the background option swatches
\* ------------------------------------------------------------------------

Silver == Rgb(225, 225, 225)
MidGray == Rgb(118, 118, 118)

\* an image of two light neutrals, a dark neutral and a mid gray
SilverImage == Run(4, Silver) \o Run(3, Light) \o Run(2, Dark) \o Run(2, MidGray)

BgLockImages == UiImages \cup {SilverImage}

InitBgLock ==
  /\ pc = "ui"
  /\ arg = NoArg
  /\ ret = NoResult
  /\ UiInit
  /\ StoreInit

ProcessBgLockImage ==
  /\ pc = "ui"
  /\ \E pixels \in BgLockImages : ImgOnload(pixels)
  /\ UNCHANGED <<pc, arg, ret, loads>>

NextBgLock ==
  \/ ProcessBgLockImage
  \/ \E j \in 1..6 : ClickLightBgSwatch(j)
  \/ \E j \in 1..6 : ClickDarkBgSwatch(j)

SpecBgLock == InitBgLock /\ [][NextBgLock]_vars

\* the hex is the data-hex of one of the swatches
Offered(hex, swatches) == \E j \in 1..Len(swatches) : swatches[j] = hex

\* C27: a background lock that is set is among the background option swatches
\* rendered for its mode, so that a click on that swatch clears it
C27_LockedBgOffered ==
  /\ lockedLightBgHex # NullStr => Offered(lockedLightBgHex, bgSwatches.light)
  /\ lockedDarkBgHex # NullStr => Offered(lockedDarkBgHex, bgSwatches.dark)

\* ------------------------------------------------------------------------
\* Two uploads whose FileReader and Image callbacks interleave
\* ------------------------------------------------------------------------

MaxSubmits == 2

InitRace ==
  /\ pc = "ui"
  /\ arg = NoArg
  /\ ret = NoResult
  /\ UiInit
  /\ StoreInit

\* processImage(file) up to reader.readAsDataURL(file)
CallProcessImage(file) ==
  /\ pc = "ui"
  /\ Len(loads) < MaxSubmits
  /\ loads' = Append(loads, [file |-> file, stage |-> "reading"])
  /\ UNCHANGED <<pc, arg, ret, extractedPalette, lockedPrimaryHex, lockedLightBgHex,
                 lockedDarkBgHex, currentTokens, bgSwatches, history, storeVars,
                 thumbnail, originalPixels>>

\* reader.onload of the i-th call: a new Image starts to decode the result
ReaderOnload(i) ==
  /\ pc = "ui"
  /\ i \in 1..Len(loads)
  /\ loads[i].stage = "reading"
  /\ loads' = [loads EXCEPT ![i].stage = "decoding"]
  /\ UNCHANGED <<pc, arg, ret, extractedPalette, lockedPrimaryHex, lockedLightBgHex,
                 lockedDarkBgHex, currentTokens, bgSwatches, history, storeVars,
                 thumbnail, originalPixels>>

\* img.onload of the i-th call
ImageOnload(i) ==
  /\ pc = "ui"
  /\ i \in 1..Len(loads)
  /\ loads[i].stage = "decoding"
  /\ loads' = [loads EXCEPT ![i].stage = "done"]
  /\ ImgOnload(loads[i].file)
  /\ UNCHANGED <<pc, arg, ret>>

NextRace ==
  \/ \E file \in BgLockImages : CallProcessImage(file)
  \/ \E i \in 1..MaxSubmits : ReaderOnload(i)
  \/ \E i \in 1..MaxSubmits : ImageOnload(i)

SpecRace == InitRace /\ [][NextRace]_vars

\* thumbnail, pixels, palette and tokens are those of the file
ShowsImage(file) ==
  /\ thumbnail = file
  /\ originalPixels = PixelsAfterMedianCut(file, 20)
  /\ extractedPalette = AssemblePalette(file)
  /\ currentTokens = generateTokens(AssemblePalette(file), NullStr, NullStr, NullStr)

\* C26: when two images have been submitted and the callbacks of both have
\* run, in whatever order, the page shows the image submitted last: thumbnail,
\* pixels, palette and tokens are all those of the second file
C26_LastSubmittedWins ==
  (Len(loads) = 2 /\ \A i \in 1..2 : loads[i].stage = "done") =>
    ShowsImage(loads[2].file)

\* the page shows one of the submitted images as a whole
C26_OneImage ==
  thumbnail # NoImage => \E i \in 1..Len(loads) : ShowsImage(loads[i].file)
Init == InitUI
Next == NextUI
Spec == SpecUI
====
